---- MODULE Spec2Model ----
(***************************************************************************)
(* A model of bevy_chess: the position model and legality engine           *)
(* (src/src/board.rs), the FEN codec (src/src/fen.rs), the SAN codec       *)
(* (src/src/step.rs) and the game tree (src/src/game_tree.rs).             *)
(*                                                                         *)
(* Encodings.  Option<T> is a sequence of length at most one: None is <<>> *)
(* and Some(x) is <<x>>.  A String is a sequence of one-character strings. *)
(* A square (usize, usize) is a pair <<x, y>>, x the file and y the rank,  *)
(* exactly as the code indexes pieces[x][y].  Option<Piece> on the grid is *)
(* a record; the absent piece is the record NoPiece.                       *)
(***************************************************************************)
EXTENDS Integers, Sequences, FiniteSets, TLC

VARIABLES board, prev, last, san, origin, line, k, free,
          tree, before, op, events, source

sessionVars == <<board, prev, last, san, origin, line, k, free>>

treeVars == <<tree, before, op, events, source>>

vars == <<sessionVars, treeVars>>

----------------------------------------------------------------------------
(* Option<T> *)

None == <<>>

Some(x) == <<x>>

is_some(o) == o # <<>>

unwrap(o) == o[1]

----------------------------------------------------------------------------
(* piece.rs *)

BOARD_SIZE_I == 8

BOARD_SIZE_J == 8

RangeI == 0..(BOARD_SIZE_I - 1)

RangeJ == 0..(BOARD_SIZE_J - 1)

PieceRole == {"Pawn", "Rook", "Knight", "Bishop", "Queen", "King"}

PieceColor == {"White", "Black"}

flip(c) == IF c = "White" THEN "Black" ELSE "White"

Piece(r, c) == [piece_role |-> r, piece_color |-> c]

NoPiece == [piece_role |-> "None", piece_color |-> "None"]

piece_is_some(p) == p.piece_role # "None"

piece_is_none(p) == p.piece_role = "None"

\* Pieces::new(): the grid with every square empty.
Pieces_new == [i \in RangeI |-> [j \in RangeJ |-> NoPiece]]

----------------------------------------------------------------------------
(* board.rs *)

Step(f, t) == [from |-> f, to |-> t]

abs_and_sign(num) ==
    << IF num < 0 THEN -num ELSE num,
       IF num < 0 THEN -1 ELSE IF num > 0 THEN 1 ELSE 0 >>

\* from.wrapping_add(delta as usize).  Every call site passes a square of
\* the board and an offset towards another square of the board, so the sum
\* stays in 0..7 and the wrap-around is never taken.
add_offset(from, delta) == from + delta

max(a, b) == IF a >= b THEN a ELSE b

\* act_move_pre that forgets to clear the en-passant target.
act_move_pre_keep_target(b, step) ==
    LET moved == b.pieces[step.from[1]][step.from[2]]
        taken == [b.pieces EXCEPT ![step.from[1]][step.from[2]] = NoPiece]
        color == flip(b.active_color)
    IN  [ pieces |-> [taken EXCEPT ![step.to[1]][step.to[2]] = moved],
          active_color |-> color,
          castling_availability |-> b.castling_availability,
          en_passant_target |-> b.en_passant_target,
          halfmove |-> b.halfmove + 1,
          fullmove |-> IF color = "White" THEN b.fullmove + 1 ELSE b.fullmove ]

\* act_move_pre that restarts the halfmove count on a pawn move or a capture.
act_move_pre_restarting(b, step) ==
    LET moved == b.pieces[step.from[1]][step.from[2]]
        taken == [b.pieces EXCEPT ![step.from[1]][step.from[2]] = NoPiece]
        color == flip(b.active_color)
    IN  [ pieces |-> [taken EXCEPT ![step.to[1]][step.to[2]] = moved],
          active_color |-> color,
          castling_availability |-> b.castling_availability,
          en_passant_target |-> None,
          halfmove |-> IF moved.piece_role = "Pawn"
                          \/ piece_is_some(b.pieces[step.to[1]][step.to[2]])
                       THEN 0 ELSE b.halfmove + 1,
          fullmove |-> IF color = "White" THEN b.fullmove + 1 ELSE b.fullmove ]

\* act_move_pre that counts the fullmove when the side that moved is White.
act_move_pre_white_counts(b, step) ==
    LET moved == b.pieces[step.from[1]][step.from[2]]
        taken == [b.pieces EXCEPT ![step.from[1]][step.from[2]] = NoPiece]
        color == flip(b.active_color)
    IN  [ pieces |-> [taken EXCEPT ![step.to[1]][step.to[2]] = moved],
          active_color |-> color,
          castling_availability |-> b.castling_availability,
          en_passant_target |-> None,
          halfmove |-> b.halfmove + 1,
          fullmove |-> IF color = "Black" THEN b.fullmove + 1 ELSE b.fullmove ]

\* Moves the piece, flips the side to move, counts the move, clears the
\* en-passant target; castling rights are left alone.
act_move_pre(b, step) ==
    LET from_x == step.from[1]
        from_y == step.from[2]
        to_x == step.to[1]
        to_y == step.to[2]
        moved == b.pieces[from_x][from_y]
        taken == [b.pieces EXCEPT ![from_x][from_y] = NoPiece]
        color == flip(b.active_color)
    IN  [ pieces |-> [taken EXCEPT ![to_x][to_y] = moved],
          active_color |-> color,
          castling_availability |-> b.castling_availability,
          en_passant_target |-> None,
          halfmove |-> b.halfmove + 1,
          fullmove |-> IF color = "White" THEN b.fullmove + 1 ELSE b.fullmove ]

\* The squares strictly between from and to along the direction of the move
\* are all empty (the for-loops of the Bishop, Rook and Queen arms).
path_clear(pieces, from_x, from_y, dx_sig, dy_sig, n) ==
    \A i \in 1..(n - 1) :
        piece_is_none(pieces[add_offset(from_x, dx_sig * i)][add_offset(from_y, dy_sig * i)])

pawn_can_move(b, piece, from_x, from_y, to_x, to_y, dx, dy, dx_val) ==
    LET pieces == b.pieces
        forward_dir == IF piece.piece_color = "White" THEN 1 ELSE -1
        start_row == IF piece.piece_color = "White" THEN 1 ELSE 6
    IN  IF dx = 0
        THEN IF dy = forward_dir /\ piece_is_none(pieces[to_x][to_y])
             THEN TRUE
             ELSE IF from_y = start_row /\ dy = 2 * forward_dir /\ dx = 0
                  THEN LET intermediate_y == add_offset(from_y, forward_dir)
                       IN  piece_is_none(pieces[to_x][intermediate_y])
                           /\ piece_is_none(pieces[to_x][to_y])
                  ELSE FALSE
        ELSE IF dy = forward_dir /\ dx_val = 1
             THEN piece_is_some(pieces[to_x][to_y])
                  \/ (is_some(b.en_passant_target)
                      /\ unwrap(b.en_passant_target) = <<to_x, to_y>>)
             ELSE FALSE

\* Pseudo-legal movement: ignores colour to move, castling and check.
can_move_pre(b, step) ==
    LET pieces == b.pieces
        from_x == step.from[1]
        from_y == step.from[2]
        to_x == step.to[1]
        to_y == step.to[2]
        piece == pieces[from_x][from_y]
        to_piece == pieces[to_x][to_y]
        dx == to_x - from_x
        dy == to_y - from_y
        dx_val == abs_and_sign(dx)[1]
        dx_sig == abs_and_sign(dx)[2]
        dy_val == abs_and_sign(dy)[1]
        dy_sig == abs_and_sign(dy)[2]
    IN  IF piece_is_none(piece) THEN FALSE
        ELSE IF piece_is_some(to_piece) /\ to_piece.piece_color = piece.piece_color
        THEN FALSE
        ELSE CASE piece.piece_role = "Bishop" ->
                    dx_val = dy_val
                    /\ path_clear(pieces, from_x, from_y, dx_sig, dy_sig, dx_val)
               [] piece.piece_role = "Pawn" ->
                    pawn_can_move(b, piece, from_x, from_y, to_x, to_y, dx, dy, dx_val)
               [] piece.piece_role = "Rook" ->
                    (dx_val = 0 \/ dy_val = 0)
                    /\ path_clear(pieces, from_x, from_y, dx_sig, dy_sig, dx_val + dy_val)
               [] piece.piece_role = "Knight" ->
                    dx_val > 0 /\ dx_val < 3 /\ dx_val + dy_val = 3
               [] piece.piece_role = "Queen" ->
                    (dx_val = dy_val \/ dx_val = 0 \/ dy_val = 0)
                    /\ path_clear(pieces, from_x, from_y, dx_sig, dy_sig, max(dx_val, dy_val))
               [] piece.piece_role = "King" ->
                    dx_val <= 1 /\ dy_val <= 1

\* No piece of the position can pseudo-legally move onto the square.
piece_safe(b, sq) ==
    \A i \in RangeI : \A j \in RangeJ : ~can_move_pre(b, Step(<<i, j>>, sq))

\* The first king of colour c in the scan order i = 0..7, j = 0..7.
king_pos(b, c) ==
    LET ks == { s \in RangeI \X RangeJ :
                  b.pieces[s[1]][s[2]] = Piece("King", c) }
    IN  IF ks = {} THEN None
        ELSE Some(CHOOSE s \in ks :
                    \A t \in ks : s[1] * BOARD_SIZE_J + s[2] <= t[1] * BOARD_SIZE_J + t[2])

king_safe(b, c) ==
    LET kp == king_pos(b, c)
    IN  IF kp = None THEN TRUE ELSE piece_safe(b, unwrap(kp))

board_valid(b) == king_safe(b, flip(b.active_color))

\* The tail of try_castle_single once the three refusals have passed: king
\* and rook are relocated and the mover's two flags are cleared.
castle_apply(b, step, rook_step) ==
    LET m == act_move_pre(b, step)
        rook == m.pieces[rook_step.from[1]][rook_step.from[2]]
        taken == [m.pieces EXCEPT ![rook_step.from[1]][rook_step.from[2]] = NoPiece]
        ca == b.castling_availability
    IN  [m EXCEPT !.pieces = [taken EXCEPT ![rook_step.to[1]][rook_step.to[2]] = rook],
                  !.castling_availability =
                      IF b.active_color = "White"
                      THEN <<FALSE, FALSE, ca[3], ca[4]>>
                      ELSE <<ca[1], ca[2], FALSE, FALSE>>]

\* The board with the piece of step.from put on sq (origin emptied): the
\* hypothetical placement of the king on a square it crosses.
king_placed(b, from, sq) ==
    LET moved == b.pieces[from[1]][from[2]]
        taken == [b.pieces EXCEPT ![from[1]][from[2]] = NoPiece]
    IN  [b EXCEPT !.pieces = [taken EXCEPT ![sq[1]][sq[2]] = moved]]

\* try_castle_single without the test of the squares the king crosses.
try_castle_single_no_transit(b, step, passby, king_passby, rook_step) ==
    IF ~piece_safe(b, step.from) THEN None
    ELSE IF \E n \in 1..Len(passby) :
                piece_is_some(b.pieces[passby[n][1]][passby[n][2]])
    THEN None
    ELSE Some(castle_apply(b, step, rook_step))

try_castle_single(b, step, passby, king_passby, rook_step) ==
    IF ~piece_safe(b, step.from) THEN None
    ELSE IF \E n \in 1..Len(passby) :
                piece_is_some(b.pieces[passby[n][1]][passby[n][2]])
    THEN None
    ELSE IF \E n \in 1..Len(king_passby) :
                ~piece_safe(king_placed(b, step.from, king_passby[n]), king_passby[n])
    THEN None
    ELSE Some(castle_apply(b, step, rook_step))

try_castle(b, step) ==
    LET from_x == step.from[1]
        from_y == step.from[2]
        to_x == step.to[1]
        to_y == step.to[2]
        wk == b.castling_availability[1]
        wq == b.castling_availability[2]
        bk == b.castling_availability[3]
        bq == b.castling_availability[4]
    IN  IF from_x = 4 /\ to_x = 6 /\ from_y = 0 /\ to_y = 0 /\ wk
        THEN try_castle_single(b, step, << <<5, 0>>, <<6, 0>> >>,
                               << <<5, 0>>, <<6, 0>> >>, Step(<<7, 0>>, <<5, 0>>))
        ELSE IF from_x = 4 /\ to_x = 2 /\ from_y = 0 /\ to_y = 0 /\ wq
        THEN try_castle_single(b, step, << <<3, 0>>, <<2, 0>>, <<1, 0>> >>,
                               << <<3, 0>>, <<2, 0>> >>, Step(<<0, 0>>, <<3, 0>>))
        ELSE IF from_x = 4 /\ to_x = 6 /\ from_y = 7 /\ to_y = 7 /\ bk
        THEN try_castle_single(b, step, << <<5, 7>>, <<6, 7>> >>,
                               << <<5, 7>>, <<6, 7>> >>, Step(<<7, 7>>, <<5, 7>>))
        ELSE IF from_x = 4 /\ to_x = 2 /\ from_y = 7 /\ to_y = 7 /\ bq
        THEN try_castle_single(b, step, << <<3, 7>>, <<2, 7>>, <<1, 7>> >>,
                               << <<3, 7>>, <<2, 7>> >>, Step(<<0, 7>>, <<3, 7>>))
        ELSE None

\* pawn_special that leaves the bypassed pawn on the board.
pawn_special_no_removal(old, b, step) ==
    LET from_y == step.from[2]
        to_x == step.to[1]
        to_y == step.to[2]
        ep == IF to_y = from_y + 2 THEN Some(<<to_x, from_y + 1>>)
              ELSE IF from_y = to_y + 2 THEN Some(<<to_x, to_y + 1>>)
              ELSE b.en_passant_target
        p2 == IF (to_y = 0 \/ to_y = 7) /\ piece_is_some(b.pieces[to_x][to_y])
              THEN [b.pieces EXCEPT ![to_x][to_y].piece_role = "Queen"]
              ELSE b.pieces
    IN  [b EXCEPT !.pieces = p2, !.en_passant_target = ep]

\* pawn_special that promotes on rank 7 alone.
pawn_special_rank_seven(old, b, step) ==
    LET from_y == step.from[2]
        to_x == step.to[1]
        to_y == step.to[2]
        isEp == is_some(old.en_passant_target) /\ unwrap(old.en_passant_target) = step.to
        p1 == IF isEp
              THEN IF old.active_color = "White"
                   THEN [b.pieces EXCEPT ![to_x][to_y - 1] = NoPiece]
                   ELSE [b.pieces EXCEPT ![to_x][to_y + 1] = NoPiece]
              ELSE b.pieces
        ep == IF to_y = from_y + 2 THEN Some(<<to_x, from_y + 1>>)
              ELSE IF from_y = to_y + 2 THEN Some(<<to_x, to_y + 1>>)
              ELSE b.en_passant_target
        p2 == IF to_y = 7 /\ piece_is_some(p1[to_x][to_y])
              THEN [p1 EXCEPT ![to_x][to_y].piece_role = "Queen"]
              ELSE p1
    IN  [b EXCEPT !.pieces = p2, !.en_passant_target = ep]

\* The pawn arm of try_move: en-passant removal, the new en-passant target
\* and promotion to queen, applied to the board b that act_move_pre gave.
pawn_special(old, b, step) ==
    LET from_y == step.from[2]
        to_x == step.to[1]
        to_y == step.to[2]
        isEp == is_some(old.en_passant_target) /\ unwrap(old.en_passant_target) = step.to
        p1 == IF isEp
              THEN IF old.active_color = "White"
                   THEN [b.pieces EXCEPT ![to_x][to_y - 1] = NoPiece]
                   ELSE [b.pieces EXCEPT ![to_x][to_y + 1] = NoPiece]
              ELSE b.pieces
        ep == IF to_y = from_y + 2 THEN Some(<<to_x, from_y + 1>>)
              ELSE IF from_y = to_y + 2 THEN Some(<<to_x, to_y + 1>>)
              ELSE b.en_passant_target
        p2 == IF (to_y = 0 \/ to_y = 7) /\ piece_is_some(p1[to_x][to_y])
              THEN [p1 EXCEPT ![to_x][to_y].piece_role = "Queen"]
              ELSE p1
    IN  [b EXCEPT !.pieces = p2, !.en_passant_target = ep]

\* The castling-rights bookkeeping of try_move for a move of a piece of the
\* given role by the side `mover`.
castling_rights(ca, mover, role, step) ==
    LET c1 == IF role = "King"
              THEN IF mover = "White"
                   THEN <<FALSE, FALSE, ca[3], ca[4]>>
                   ELSE <<ca[1], ca[2], FALSE, FALSE>>
              ELSE ca
        c2 == IF role = "Rook"
              THEN CASE step.from = <<0, 7>> -> [c1 EXCEPT ![1] = FALSE]
                     [] step.from = <<0, 0>> -> [c1 EXCEPT ![2] = FALSE]
                     [] step.from = <<7, 7>> -> [c1 EXCEPT ![3] = FALSE]
                     [] step.from = <<7, 0>> -> [c1 EXCEPT ![4] = FALSE]
                     [] OTHER -> c1
              ELSE c1
    IN  CASE step.to = <<0, 7>> -> [c2 EXCEPT ![1] = FALSE]
          [] step.to = <<0, 0>> -> [c2 EXCEPT ![2] = FALSE]
          [] step.to = <<7, 7>> -> [c2 EXCEPT ![3] = FALSE]
          [] step.to = <<7, 0>> -> [c2 EXCEPT ![4] = FALSE]
          [] OTHER -> c2

\* The value of `res` in try_move before the final self-check test: the
\* pseudo-legal move applied with its special cases, else the castling.
try_move_res(b, step) ==
    LET piece == b.pieces[step.from[1]][step.from[2]]
        to_piece == b.pieces[step.to[1]][step.to[2]]
        role == piece.piece_role
    IN  IF piece_is_none(piece) THEN None
        ELSE IF piece.piece_color # b.active_color THEN None
        ELSE IF piece_is_some(to_piece) /\ to_piece.piece_color = piece.piece_color
        THEN None
        ELSE IF can_move_pre(b, step)
        THEN LET m0 == act_move_pre(b, step)
                 m1 == IF role = "Pawn" THEN pawn_special(b, m0, step) ELSE m0
             IN  Some([m1 EXCEPT !.castling_availability =
                          castling_rights(m1.castling_availability, b.active_color, role, step)])
        ELSE try_castle(b, step)

\* self_check_filter without the test: every result stands.
self_check_filter_none(res) == res

\* The final test of try_move: the result stands only if the king of the
\* side that moved exists and is safe.
self_check_filter(res) ==
    IF is_some(res)
    THEN LET b == unwrap(res)
             kp == king_pos(b, flip(b.active_color))
         IN  IF is_some(kp)
             THEN IF piece_safe(b, unwrap(kp)) THEN res ELSE None
             ELSE None
    ELSE None

try_move(b, step) == self_check_filter(try_move_res(b, step))

AllSquares == RangeI \X RangeJ

all_targets(b, from) == { to \in AllSquares : is_some(try_move(b, Step(from, to))) }

all_move(b) ==
    { s \in [from : AllSquares, to : AllSquares] :
        /\ b.pieces[s.from[1]][s.from[2]].piece_color = b.active_color
        /\ s.to \in all_targets(b, s.from) }

\* all_move(board).is_empty()
no_move(b) ==
    \A f \in AllSquares :
        b.pieces[f[1]][f[2]].piece_color = b.active_color
            => \A t \in AllSquares : ~is_some(try_move(b, Step(f, t)))

Winner(c) == [kind |-> "Winner", color |-> c]

Draw == [kind |-> "Draw", color |-> "None"]

\* end_game with the two outcomes of a position without moves exchanged.
end_game_swapped(b) ==
    IF no_move(b)
    THEN LET kp == king_pos(b, b.active_color)
         IN  IF is_some(kp)
             THEN IF piece_safe(b, unwrap(kp))
                  THEN Some(Winner(flip(b.active_color)))
                  ELSE Some(Draw)
             ELSE Some(Draw)
    ELSE None

end_game(b) ==
    IF no_move(b)
    THEN LET kp == king_pos(b, b.active_color)
         IN  IF is_some(kp)
             THEN IF piece_safe(b, unwrap(kp))
                  THEN Some(Draw)
                  ELSE Some(Winner(flip(b.active_color)))
             ELSE Some(Draw)
    ELSE None

----------------------------------------------------------------------------
(* Characters and strings.  A char is a one-character string; its code is  *)
(* its ASCII code, read off the table of the printable characters 32..126  *)
(* (double quote, backslash and backtick stand in the table under a name). *)

AsciiTable ==
    <<" ", "!", "dquote", "#", "$", "%", "&", "'", "(", ")", "*", "+", ",",
       "-", ".", "/", "0", "1", "2", "3", "4", "5", "6", "7", "8", "9",
       ":", ";", "<", "=", ">", "?", "@", "A", "B", "C", "D", "E", "F",
       "G", "H", "I", "J", "K", "L", "M", "N", "O", "P", "Q", "R", "S",
       "T", "U", "V", "W", "X", "Y", "Z", "[", "bslash", "]", "^", "_", "btick",
       "a", "b", "c", "d", "e", "f", "g", "h", "i", "j", "k", "l", "m",
       "n", "o", "p", "q", "r", "s", "t", "u", "v", "w", "x", "y", "z",
       "{", "|", "}", "~">>

\* The code of every char of the table.
AsciiCode ==
    [c \in {AsciiTable[n] : n \in 1..Len(AsciiTable)} |->
        31 + (CHOOSE n \in 1..Len(AsciiTable) : AsciiTable[n] = c)]

Ord(c) == AsciiCode[c]

Chr(n) == AsciiTable[n - 31]

is_ascii_digit(c) == Ord(c) >= Ord("0") /\ Ord(c) <= Ord("9")

is_ascii_lowercase(c) == Ord(c) >= Ord("a") /\ Ord(c) <= Ord("z")

is_ascii_uppercase(c) == Ord(c) >= Ord("A") /\ Ord(c) <= Ord("Z")

to_ascii_lowercase(c) == IF is_ascii_uppercase(c) THEN Chr(Ord(c) + 32) ELSE c

to_ascii_uppercase(c) == IF is_ascii_lowercase(c) THEN Chr(Ord(c) - 32) ELSE c

\* char::to_digit(10) of a decimal digit.
to_digit(c) == Ord(c) - Ord("0")

\* The line feed, kept as one element of a string.
NewLine == "nl"

is_whitespace(c) == c = " " \/ c = NewLine

contains(s, c) == \E n \in 1..Len(s) : s[n] = c

\* usize::to_string: the decimal digits, most significant first.
RECURSIVE to_string(_)
to_string(n) ==
    IF n < 10 THEN <<Chr(Ord("0") + n)>>
    ELSE to_string(n \div 10) \o <<Chr(Ord("0") + (n % 10))>>

RECURSIVE digits_value(_, _)
digits_value(s, acc) ==
    IF s = <<>> THEN acc ELSE digits_value(Tail(s), acc * 10 + to_digit(Head(s)))

\* str::parse::<usize>(): an optional '+' and at least one decimal digit,
\* nothing else (values beyond usize do not occur within the bounds).
parse_usize(s) ==
    LET body == IF s # <<>> /\ Head(s) = "+" THEN Tail(s) ELSE s
    IN  IF body # <<>> /\ \A n \in 1..Len(body) : is_ascii_digit(body[n])
        THEN Some(digits_value(body, 0))
        ELSE None

\* str::split_whitespace, collected: the maximal runs of non-whitespace.
RECURSIVE split_ws(_, _, _)
split_ws(s, cur, acc) ==
    IF s = <<>>
    THEN IF cur = <<>> THEN acc ELSE Append(acc, cur)
    ELSE IF is_whitespace(Head(s))
         THEN split_ws(Tail(s), <<>>, IF cur = <<>> THEN acc ELSE Append(acc, cur))
         ELSE split_ws(Tail(s), Append(cur, Head(s)), acc)

split_whitespace(s) == split_ws(s, <<>>, <<>>)

\* parts.next().unwrap_or(default) for the n-th field.
part_or(parts, n, default) == IF n <= Len(parts) THEN parts[n] ELSE default

----------------------------------------------------------------------------
(* fen.rs *)

INITIAL_FEN ==
    <<"r", "n", "b", "q", "k", "b", "n", "r", "/", "p", "p", "p", "p", "p",
       "p", "p", "p", "/", "8", "/", "8", "/", "8", "/", "8", "/", "P",
       "P", "P", "P", "P", "P", "P", "P", "/", "R", "N", "B", "Q", "K",
       "B", "N", "R", " ", "w", " ", "K", "Q", "k", "q", " ", "-", " ",
       "0", " ", "1">>

char_to_role(c) ==
    LET l == to_ascii_lowercase(c)
    IN  CASE l = "k" -> Some("King")
          [] l = "q" -> Some("Queen")
          [] l = "r" -> Some("Rook")
          [] l = "b" -> Some("Bishop")
          [] l = "n" -> Some("Knight")
          [] l = "p" -> Some("Pawn")
          [] OTHER -> None

role_to_char(r) ==
    CASE r = "Pawn" -> "p"
      [] r = "Rook" -> "r"
      [] r = "Knight" -> "n"
      [] r = "Bishop" -> "b"
      [] r = "Queen" -> "q"
      [] r = "King" -> "k"

\* piece_to_char that writes every piece in lower case.
piece_to_char_lower(p) ==
    IF piece_is_some(p) THEN role_to_char(p.piece_role) ELSE "1"

piece_to_char(p) ==
    IF piece_is_some(p)
    THEN IF p.piece_color = "White"
         THEN to_ascii_uppercase(role_to_char(p.piece_role))
         ELSE role_to_char(p.piece_role)
    ELSE "1"

\* The placement loop of read_fen: st is the loop state (grid, row, col),
\* with `oob` set once a piece is written outside the 8x8 grid (the index
\* panic of board[col][row]).
RECURSIVE read_placement(_, _)
read_placement(s, st) ==
    IF s = <<>> \/ st.oob THEN st
    ELSE LET c == Head(s)
         IN  CASE c = " " -> st
               [] c = "/" ->
                    IF st.row = 0 THEN st
                    ELSE read_placement(Tail(s), [st EXCEPT !.row = st.row - 1, !.col = 0])
               [] c # " " /\ c # "/" /\ is_ascii_digit(c) ->
                    read_placement(Tail(s), [st EXCEPT !.col = st.col + to_digit(c)])
               [] OTHER ->
                    IF is_some(char_to_role(c))
                    THEN IF st.col \in RangeI
                         THEN read_placement(Tail(s),
                                [st EXCEPT
                                   !.grid[st.col][st.row] =
                                       Piece(unwrap(char_to_role(c)),
                                             IF is_ascii_lowercase(c) THEN "Black" ELSE "White"),
                                   !.col = st.col + 1])
                         ELSE [st EXCEPT !.oob = TRUE]
                    ELSE read_placement(Tail(s), st)

\* The en-passant field of read_fen, for a field of a file letter a..h and a
\* rank digit 1..8, or "-".
read_en_passant(f) ==
    IF f = <<"-">> THEN None
    ELSE Some(<<Ord(f[1]) - Ord("a"), to_digit(f[2]) - 1>>)

read_fen(fen) ==
    LET parts == split_whitespace(fen)
        piece_placement == part_or(parts, 1, <<>>)
        active_color == part_or(parts, 2, <<"w">>)
        castling == part_or(parts, 3, <<"K", "Q", "k", "q">>)
        en_passant == part_or(parts, 4, <<"-">>)
        halfmove == part_or(parts, 5, <<"0">>)
        fullmove == part_or(parts, 6, <<"1">>)
        placed == read_placement(piece_placement,
                                 [grid |-> Pieces_new, row |-> 7, col |-> 0, oob |-> FALSE])
        hm == parse_usize(halfmove)
        fm == parse_usize(fullmove)
    IN  [ pieces |-> placed.grid,
          active_color |-> IF active_color = <<"b">> THEN "Black" ELSE "White",
          castling_availability |->
              << contains(castling, "K"), contains(castling, "Q"),
                 contains(castling, "k"), contains(castling, "q") >>,
          en_passant_target |-> read_en_passant(en_passant),
          halfmove |-> IF is_some(hm) THEN unwrap(hm) ELSE 0,
          fullmove |-> IF is_some(fm) THEN unwrap(fm) ELSE 1 ]

\* read_fen panics in every build: a piece is put on a file beyond the
\* board (board[col][row]), or the en-passant field, other than "-", has no
\* second char or one that is no decimal digit (the two unwrap()).
read_fen_panics(fen) ==
    LET parts == split_whitespace(fen)
        en_passant == part_or(parts, 4, <<"-">>)
    IN  \/ read_placement(part_or(parts, 1, <<>>),
                          [grid |-> Pieces_new, row |-> 7, col |-> 0, oob |-> FALSE]).oob
        \/ /\ en_passant # <<"-">>
           /\ \/ Len(en_passant) < 2
              \/ ~is_ascii_digit(en_passant[2])

\* A usize subtraction of the en-passant field goes below zero (a first char
\* before 'a', or the rank digit 0): a panic where overflow is checked, a
\* wrapped value where it is not.  The wrapped value is written as the
\* negative number it stands for modulo 2^64.
read_fen_overflows(fen) ==
    LET en_passant == part_or(split_whitespace(fen), 4, <<"-">>)
    IN  /\ en_passant # <<"-">>
        /\ \/ Ord(en_passant[1]) < Ord("a")
           \/ Len(en_passant) >= 2 /\ is_ascii_digit(en_passant[2])
                                   /\ to_digit(en_passant[2]) = 0

\* What a call of read_fen can do: return a board (Some) or panic (None).
read_fen_outcomes(fen) ==
    IF read_fen_panics(fen) THEN {None}
    ELSE {Some(read_fen(fen))} \cup (IF read_fen_overflows(fen) THEN {None} ELSE {})

\* One rank of the placement, one char per square, files 0..7.
fen_row(pieces, j) == [n \in 1..BOARD_SIZE_I |-> piece_to_char(pieces[n - 1][j])]

\* The ranks 7 down to 0 joined by "/".
RECURSIVE fen_rows(_, _)
fen_rows(pieces, j) ==
    IF j = 0 THEN fen_row(pieces, 0)
    ELSE fen_row(pieces, j) \o <<"/">> \o fen_rows(pieces, j - 1)

\* Regex "1{2,}" replace_all by the length of the match: every maximal run
\* of two or more '1' becomes its decimal length.  run is the length of the
\* run of '1' read so far.
RECURSIVE collapse_ones(_, _)
collapse_ones(s, run) ==
    LET flush == IF run = 0 THEN <<>>
                 ELSE IF run = 1 THEN <<"1">>
                 ELSE to_string(run)
    IN  IF s = <<>> THEN flush
        ELSE IF Head(s) = "1" THEN collapse_ones(Tail(s), run + 1)
        ELSE flush \o <<Head(s)>> \o collapse_ones(Tail(s), 0)

write_castling(ca) ==
    LET s == (IF ca[1] THEN <<"K">> ELSE <<>>) \o (IF ca[2] THEN <<"Q">> ELSE <<>>)
             \o (IF ca[3] THEN <<"k">> ELSE <<>>) \o (IF ca[4] THEN <<"q">> ELSE <<>>)
    IN  IF s = <<>> THEN <<"-">> ELSE s

write_en_passant(ep) ==
    IF is_some(ep)
    THEN <<Chr(Ord("a") + unwrap(ep)[1]), Chr(Ord("1") + unwrap(ep)[2])>>
    ELSE <<"-">>

write_fen(b) ==
    collapse_ones(fen_rows(b.pieces, BOARD_SIZE_J - 1), 0)
    \o <<" ">> \o (IF b.active_color = "White" THEN <<"w">> ELSE <<"b">>)
    \o <<" ">> \o write_castling(b.castling_availability)
    \o <<" ">> \o write_en_passant(b.en_passant_target)
    \o <<" ">> \o to_string(b.halfmove)
    \o <<" ">> \o to_string(b.fullmove)

----------------------------------------------------------------------------
(* step.rs *)

piece_name(role) ==
    CASE role = "Pawn" -> <<>>
      [] role = "Rook" -> <<"R">>
      [] role = "Knight" -> <<"N">>
      [] role = "Bishop" -> <<"B">>
      [] role = "Queen" -> <<"Q">>
      [] role = "King" -> <<"K">>

name_to_role(name) ==
    CASE name = <<>> -> "Pawn"
      [] name = <<"K">> -> "King"
      [] name = <<"Q">> -> "Queen"
      [] name = <<"R">> -> "Rook"
      [] name = <<"B">> -> "Bishop"
      [] name = <<"N">> -> "Knight"

coordinate(s) == <<Ord(s[1]) - Ord("a"), Ord(s[2]) - Ord("1")>>

\* (b'a' + x as u8) as char
file_char(x) == Chr(Ord("a") + x)

\* check_string that writes a mate as a check.
check_string_no_mate(new_board) ==
    IF ~king_safe(new_board, new_board.active_color) THEN <<"+">> ELSE <<>>

\* check_string that takes every end of the game for a mate.
check_string_any_end(new_board) ==
    IF is_some(end_game(new_board)) THEN <<"#">>
    ELSE IF ~king_safe(new_board, new_board.active_color) THEN <<"+">>
    ELSE <<>>

\* "#" on checkmate, "+" on check, "" otherwise, for the position after the
\* move.
check_string(new_board) ==
    LET check == ~king_safe(new_board, new_board.active_color)
        eg == end_game(new_board)
        checkmate == is_some(eg) /\ unwrap(eg).kind = "Winner"
    IN  IF checkmate THEN <<"#">>
        ELSE IF check THEN <<"+">>
        ELSE <<>>

\* The squares of the disambiguation set: the mover's origin and every other
\* square holding an identical piece that can legally reach the destination.
ambiguous_set(b, step) ==
    LET piece == b.pieces[step.from[1]][step.from[2]]
    IN  {step.from} \cup
        { f \in AllSquares :
            /\ f # step.from
            /\ b.pieces[f[1]][f[2]] = piece
            /\ is_some(try_move(b, Step(f, step.to))) }

\* disambiguate that never writes file and rank together.
disambiguate_file_or_rank(b, step, capture, role) ==
    LET from_x == step.from[1]
        from_y == step.from[2]
        ambiguous == ambiguous_set(b, step)
        unique_x == Cardinality({ f \in ambiguous : f[1] = from_x }) = 1
    IN  IF Cardinality(ambiguous) = 1
        THEN IF capture /\ role = "Pawn" THEN <<file_char(from_x)>> ELSE <<>>
        ELSE IF unique_x THEN <<file_char(from_x)>>
        ELSE to_string(from_y + 1)

disambiguate(b, step, capture, role) ==
    LET from_x == step.from[1]
        from_y == step.from[2]
        ambiguous == ambiguous_set(b, step)
        unique_x == Cardinality({ f \in ambiguous : f[1] = from_x }) = 1
        unique_y == Cardinality({ f \in ambiguous : f[2] = from_y }) = 1
    IN  IF Cardinality(ambiguous) = 1
        THEN IF capture /\ role = "Pawn" THEN <<file_char(from_x)>> ELSE <<>>
        ELSE IF unique_x THEN <<file_char(from_x)>>
        ELSE IF unique_y THEN to_string(from_y + 1)
        ELSE <<file_char(from_x)>> \o to_string(from_y + 1)

\* The text of a castling move: by the file the king lands on.
castle_text(step) ==
    IF step.to[1] = 6 THEN <<"O", "-", "O">> ELSE <<"O", "-", "O", "-", "O">>

\* write_step that has no text for a castling move.
write_step_no_castle(b, step) ==
    LET moved == try_move(b, step)
    IN  IF ~is_some(moved) THEN None
        ELSE
        LET new_board == unwrap(moved)
            to_x == step.to[1]
            to_y == step.to[2]
            piece == b.pieces[step.from[1]][step.from[2]]
            role == piece.piece_role
            name == piece_name(role)
            target == <<file_char(to_x)>> \o to_string(to_y + 1)
            isEp == is_some(b.en_passant_target) /\ unwrap(b.en_passant_target) = step.to
            capture == piece_is_some(b.pieces[to_x][to_y]) \/ (role = "Pawn" /\ isEp)
            promotion == IF role = "Pawn" /\ (to_y = 0 \/ to_y = 7)
                         THEN <<"=", "Q">> ELSE <<>>
        IN  IF role = "King" /\ is_some(try_castle(b, step))
            THEN None
            ELSE Some(name \o disambiguate(b, step, capture, role)
                      \o (IF capture THEN <<"x">> ELSE <<>>)
                      \o target \o promotion \o check_string(new_board))

write_step(b, step) ==
    LET moved == try_move(b, step)
    IN  IF ~is_some(moved) THEN None
        ELSE
        LET new_board == unwrap(moved)
            to_x == step.to[1]
            to_y == step.to[2]
            piece == b.pieces[step.from[1]][step.from[2]]
            role == piece.piece_role
            name == piece_name(role)
            target == <<file_char(to_x)>> \o to_string(to_y + 1)
            isEp == is_some(b.en_passant_target) /\ unwrap(b.en_passant_target) = step.to
            capture == piece_is_some(b.pieces[to_x][to_y]) \/ (role = "Pawn" /\ isEp)
            promotion == IF role = "Pawn" /\ (to_y = 0 \/ to_y = 7)
                         THEN <<"=", "Q">> ELSE <<>>
        IN  IF role = "King" /\ is_some(try_castle(b, step))
            THEN Some(castle_text(step) \o check_string(new_board))
            ELSE Some(name \o disambiguate(b, step, capture, role)
                      \o (IF capture THEN <<"x">> ELSE <<>>)
                      \o target \o promotion \o check_string(new_board))

\* write_step reaches one of its unreachable!() arms: the move was applied
\* and the origin square is empty, or the move is a castling and the king
\* lands on neither the g-file nor the c-file.
write_step_panics(b, step) ==
    /\ is_some(try_move(b, step))
    /\ \/ piece_is_none(b.pieces[step.from[1]][step.from[2]])
       \/ /\ b.pieces[step.from[1]][step.from[2]].piece_role = "King"
          /\ is_some(try_castle(b, step))
          /\ step.to[1] # 6
          /\ step.to[1] # 2

starts_with(s, p) == Len(s) >= Len(p) /\ SubSeq(s, 1, Len(p)) = p

\* The king move read_step builds for a castling text, gated on the flag.
castle_step(b, s) ==
    LET ca == b.castling_availability
    IN  IF starts_with(s, <<"O", "-", "O", "-", "O">>)
        THEN IF b.active_color = "White"
             THEN IF ~ca[2] THEN None ELSE Some(Step(<<4, 0>>, <<2, 0>>))
             ELSE IF ~ca[4] THEN None ELSE Some(Step(<<4, 7>>, <<2, 7>>))
        ELSE IF b.active_color = "White"
             THEN IF ~ca[1] THEN None ELSE Some(Step(<<4, 0>>, <<6, 0>>))
             ELSE IF ~ca[3] THEN None ELSE Some(Step(<<4, 7>>, <<2, 7>>))

in_class(c, lo, hi) == Ord(c) >= Ord(lo) /\ Ord(c) <= Ord(hi)

is_role_letter(c) == c \in {"K", "Q", "R", "B", "N"}

\* s without its last char when the test t holds.
drop_last_if(s, t) == IF s # <<>> /\ t THEN SubSeq(s, 1, Len(s) - 1) ELSE s

\* The optional groups 1 to 3 of the pattern, peeled off the front.
peel_role(p) == IF p # <<>> /\ is_role_letter(p[1]) THEN Tail(p) ELSE p

peel_file(p) == IF p # <<>> /\ in_class(p[1], "a", "h") THEN Tail(p) ELSE p

peel_rank(p) == IF p # <<>> /\ in_class(p[1], "1", "8") THEN Tail(p) ELSE p

peel_x(p) == IF p # <<>> /\ p[1] = "x" THEN Tail(p) ELSE p

\* pre is what stands before group 4 (target): it must be groups 1 to 3.
captures_pre(pre, target) ==
    IF peel_x(peel_rank(peel_file(peel_role(pre)))) = <<>>
    THEN Some(<< IF pre # <<>> /\ is_role_letter(pre[1]) THEN <<pre[1]>> ELSE <<>>, target >>)
    ELSE None

\* b is the text without groups 5 and 6: it must end in group 4.
captures_target(b) ==
    IF Len(b) >= 2 /\ in_class(b[Len(b) - 1], "a", "h") /\ in_class(b[Len(b)], "1", "8")
    THEN captures_pre(SubSeq(b, 1, Len(b) - 2), SubSeq(b, Len(b) - 1, Len(b)))
    ELSE None

\* a is the text without group 6: the promotion group is dropped.
captures_promotion(a) ==
    captures_target(IF Len(a) >= 2 /\ a[Len(a) - 1] = "="
                       /\ a[Len(a)] \in {"Q", "R", "B", "N"}
                    THEN SubSeq(a, 1, Len(a) - 2) ELSE a)

\* The match of ^([KQRBN]?)([a-h]?[1-8]?)(x?)([a-h][1-8])(?:=([QRBN]))?([+#]?)$
\* on s: None when s does not match, else Some(<<group 1, group 4>>).  The
\* character classes of adjacent groups are disjoint, so the match is found
\* by peeling the optional groups off the two ends.
chess_move_captures(s) ==
    captures_promotion(drop_last_if(s, s # <<>> /\ s[Len(s)] \in {"+", "#"}))

\* The castling arm of read_step: the step stands if write_step gives s.
read_castle(b, s, cs) ==
    IF is_some(cs) /\ write_step(b, unwrap(cs)) = Some(s) THEN cs ELSE None

\* The first square, in the scan order fx = 0..7, fy = 0..7, among hits.
first_source(hits, target) ==
    IF hits = {} THEN None
    ELSE Some(Step(CHOOSE f \in hits :
                     \A g \in hits :
                        f[1] * BOARD_SIZE_J + f[2] <= g[1] * BOARD_SIZE_J + g[2],
                   target))

\* The scan of read_step for a piece of the role and of the side to move
\* whose move to target is written s.
read_scan(b, s, role, target) ==
    first_source({ f \in AllSquares :
                     /\ b.pieces[f[1]][f[2]] = Piece(role, b.active_color)
                     /\ write_step(b, Step(f, target)) = Some(s) },
                 target)

read_plain(b, s, caps) ==
    IF ~is_some(caps) THEN None
    ELSE read_scan(b, s, name_to_role(unwrap(caps)[1]), coordinate(unwrap(caps)[2]))

read_step(b, s) ==
    IF starts_with(s, <<"O", "-", "O">>)
    THEN read_castle(b, s, castle_step(b, s))
    ELSE read_plain(b, s, chess_move_captures(s))

----------------------------------------------------------------------------
(* game_tree.rs: the arena.  A Vec index i is kept as the number i (root   *)
(* and focus are 0-based as in the code); the node of index i is the       *)
(* (i + 1)-th element of the sequence nodes.  A son (Step, usize,          *)
(* MoveData) is a triple.                                                  *)

\* MoveData whose ply counts from the position after the move.
MoveData_next_ply(ply, text, color) ==
    [ply |-> IF color = "Black" THEN ply + 1 ELSE ply, san |-> text, color |-> color]

MoveData(ply, text, color) == [ply |-> ply, san |-> text, color |-> color]

GameTreeNode_new(b) == [board |-> b, sons |-> <<>>, parent |-> None]

GameTree_new(b) == [nodes |-> <<GameTreeNode_new(b)>>, root |-> 0, focus |-> 0]

\* self.nodes[i]
node_at(t, i) == t.nodes[i + 1]

GameTree_board(t) == node_at(t, t.focus).board

is_first_board(t) == t.focus = t.root

is_last_board(t) == Len(node_at(t, t.focus).sons) = 0

RECURSIVE move_to_start(_)
move_to_start(t) ==
    LET parent == node_at(t, t.focus).parent
    IN  IF is_some(parent) THEN move_to_start([t EXCEPT !.focus = unwrap(parent)])
        ELSE t

move_backward(t) ==
    LET parent == node_at(t, t.focus).parent
    IN  IF is_some(parent) THEN [t EXCEPT !.focus = unwrap(parent)] ELSE t

\* move_forward that follows the last son instead of the first.
move_forward_last_son(t) ==
    LET sons == node_at(t, t.focus).sons
    IN  IF sons # <<>> THEN [t EXCEPT !.focus = sons[Len(sons)][2]] ELSE t

move_forward(t) ==
    LET sons == node_at(t, t.focus).sons
    IN  IF sons # <<>> THEN [t EXCEPT !.focus = sons[1][2]] ELSE t

RECURSIVE move_to_end(_)
move_to_end(t) ==
    LET sons == node_at(t, t.focus).sons
    IN  IF sons # <<>> THEN move_to_end([t EXCEPT !.focus = sons[1][2]]) ELSE t

move_to_node(t, idx) == [t EXCEPT !.focus = idx]

\* record_move that resets the focus to the root when the move is rejected.
record_move_refocus(t, step, r) ==
    IF is_some(r)
    THEN LET node == node_at(t, t.focus)
             new_index == Len(t.nodes)
             created == [GameTreeNode_new(unwrap(r)) EXCEPT !.parent = Some(t.focus)]
             move_data == MoveData(node.board.fullmove,
                                   unwrap(write_step(node.board, step)),
                                   node.board.active_color)
         IN  [ tree |-> [ nodes |-> [Append(t.nodes, created) EXCEPT ![t.focus + 1].sons =
                                        Append(@, <<step, new_index, move_data>>)],
                          root |-> t.root,
                          focus |-> new_index ],
               ret |-> TRUE ]
    ELSE [tree |-> [t EXCEPT !.focus = t.root], ret |-> FALSE]

\* The second half of GameTree::try_move, r being try_move of the focus
\* position: the new node is pushed, linked and focused, or false returned.
record_move(t, step, r) ==
    IF is_some(r)
    THEN LET node == node_at(t, t.focus)
             new_index == Len(t.nodes)
             created == [GameTreeNode_new(unwrap(r)) EXCEPT !.parent = Some(t.focus)]
             move_data == MoveData(node.board.fullmove,
                                   unwrap(write_step(node.board, step)),
                                   node.board.active_color)
         IN  [ tree |-> [ nodes |-> [Append(t.nodes, created) EXCEPT ![t.focus + 1].sons =
                                        Append(@, <<step, new_index, move_data>>)],
                          root |-> t.root,
                          focus |-> new_index ],
               ret |-> TRUE ]
    ELSE [tree |-> t, ret |-> FALSE]

\* GameTree::try_move always recording a new node, whether or not the
\* focus has a son for the step.
GameTree_try_move_no_reuse(t, step) ==
    record_move(t, step, try_move(node_at(t, t.focus).board, step))

\* GameTree::try_move: the tree after the call and the value returned.
GameTree_try_move(t, step) ==
    LET sons == node_at(t, t.focus).sons
        hits == { n \in 1..Len(sons) : sons[n][1] = step }
    IN  IF hits # {}
        THEN [ tree |-> [t EXCEPT !.focus = sons[CHOOSE n \in hits : \A m \in hits : n <= m][2]],
               ret |-> TRUE ]
        ELSE record_move(t, step, try_move(node_at(t, t.focus).board, step))

\* from_pgn_steps that stops at the first token that is not played.
RECURSIVE from_pgn_steps_stopping(_, _, _)
from_pgn_steps_stopping(t, b, steps) ==
    IF steps = <<>> THEN t
    ELSE IF is_some(read_step(b, Head(steps)))
         THEN IF GameTree_try_move(t, unwrap(read_step(b, Head(steps)))).ret
              THEN from_pgn_steps_stopping(
                       GameTree_try_move(t, unwrap(read_step(b, Head(steps)))).tree,
                       GameTree_board(
                           GameTree_try_move(t, unwrap(read_step(b, Head(steps)))).tree),
                       Tail(steps))
              ELSE t
         ELSE t

\* The loop of from_pgn over the tokens parse_pgn returned: a token that
\* read_step decodes on the board b is tried on the tree, and b
\* follows the tree when the move was taken.
RECURSIVE from_pgn_steps(_, _, _)
RECURSIVE from_pgn_tried(_, _, _, _)
from_pgn_steps(t, b, steps) ==
    IF steps = <<>> THEN t
    ELSE IF is_some(read_step(b, Head(steps)))
         THEN from_pgn_tried(t, b, Tail(steps),
                             GameTree_try_move(t, unwrap(read_step(b, Head(steps)))))
         ELSE from_pgn_steps(t, b, Tail(steps))

from_pgn_tried(t, b, rest, r) ==
    IF r.ret THEN from_pgn_steps(r.tree, GameTree_board(r.tree), rest)
    ELSE from_pgn_steps(t, b, rest)

\* GameTree::from_pgn, given the tokens parse_pgn finds in the text.
GameTree_from_pgn(steps) ==
    from_pgn_steps(GameTree_new(read_fen(INITIAL_FEN)), read_fen(INITIAL_FEN), steps)

\* swap_to_front that moves the son to the front and shifts the sons before
\* it one place down.
swap_to_front_shifting(sons, current) ==
    LET found == { n \in 1..Len(sons) : sons[n][2] = current }
        pos == IF found = {} THEN 0
               ELSE (CHOOSE n \in found : \A m \in found : m <= n) - 1
    IN  IF pos # 0
        THEN [n \in 1..Len(sons) |->
                 IF n = 1 THEN sons[pos + 1]
                 ELSE IF n <= pos + 1 THEN sons[n - 1] ELSE sons[n]]
        ELSE sons

\* The loop that looks for `current` among the sons (pos is 0-based and
\* stays 0 when nothing matches) followed by sons.swap(0, pos).
swap_to_front(sons, current) ==
    LET found == { n \in 1..Len(sons) : sons[n][2] = current }
        pos == IF found = {} THEN 0
               ELSE (CHOOSE n \in found : \A m \in found : m <= n) - 1
    IN  IF pos # 0
        THEN [sons EXCEPT ![1] = sons[pos + 1], ![pos + 1] = sons[1]]
        ELSE sons

\* "Promote Variation" of the context menu.
promote_variation(t, current) ==
    LET parent == node_at(t, current).parent
    IN  IF is_some(parent)
        THEN [t EXCEPT !.nodes[unwrap(parent) + 1].sons = swap_to_front(@, current)]
        ELSE t

\* "Set as mainline" of the context menu.  A node other than the root
\* without parent ends the loop in unreachable!(): the tree is left as it is.
\* set_as_mainline that stops after the first swap.
set_as_mainline_one_level(t, cur) ==
    IF cur = t.root THEN t
    ELSE LET parent == node_at(t, cur).parent
         IN  IF is_some(parent)
             THEN [t EXCEPT !.nodes[unwrap(parent) + 1].sons = swap_to_front(@, cur)]
             ELSE t

RECURSIVE set_as_mainline(_, _)
set_as_mainline(t, cur) ==
    IF cur = t.root THEN t
    ELSE LET parent == node_at(t, cur).parent
         IN  IF is_some(parent)
             THEN set_as_mainline(
                      [t EXCEPT !.nodes[unwrap(parent) + 1].sons = swap_to_front(@, cur)],
                      unwrap(parent))
             ELSE t

\* collect_remaining_nodes that skips node_to_delete alone and walks on
\* into its sons.
RECURSIVE collect_remaining_nodes_shallow(_, _, _, _)
RECURSIVE collect_sons_shallow(_, _, _, _, _)
collect_remaining_nodes_shallow(t, current, node_to_delete, acc) ==
    LET new_index == Len(acc.remaining_nodes)
        acc1 == IF current = node_to_delete THEN acc
                ELSE [ remaining_nodes |-> Append(acc.remaining_nodes, current),
                       node_mapping |-> [acc.node_mapping EXCEPT ![current] = Some(new_index)] ]
    IN  collect_sons_shallow(t, node_at(t, current).sons, 1, node_to_delete, acc1)

collect_sons_shallow(t, sons, n, node_to_delete, acc) ==
    IF n > Len(sons) THEN acc
    ELSE collect_sons_shallow(t, sons, n + 1, node_to_delete,
             collect_remaining_nodes_shallow(t, sons[n][2], node_to_delete, acc))

\* collect_remaining_nodes that numbers a node after its sons.
RECURSIVE collect_remaining_nodes_post_order(_, _, _, _)
RECURSIVE collect_sons_post_order(_, _, _, _, _)
RECURSIVE numbered_after_sons(_, _)
collect_remaining_nodes_post_order(t, current, node_to_delete, acc) ==
    IF current = node_to_delete THEN acc
    ELSE numbered_after_sons(current,
             collect_sons_post_order(t, node_at(t, current).sons, 1, node_to_delete, acc))

collect_sons_post_order(t, sons, n, node_to_delete, acc) ==
    IF n > Len(sons) THEN acc
    ELSE collect_sons_post_order(t, sons, n + 1, node_to_delete,
             collect_remaining_nodes_post_order(t, sons[n][2], node_to_delete, acc))

numbered_after_sons(current, acc) ==
    [ remaining_nodes |-> Append(acc.remaining_nodes, current),
      node_mapping |-> [acc.node_mapping EXCEPT ![current] = Some(Len(acc.remaining_nodes))] ]

\* The pre-order walk from `current` that skips the subtree of
\* node_to_delete; acc holds remaining_nodes and node_mapping.
RECURSIVE collect_remaining_nodes(_, _, _, _)
RECURSIVE collect_sons(_, _, _, _, _)
collect_remaining_nodes(t, current, node_to_delete, acc) ==
    IF current = node_to_delete THEN acc
    ELSE LET new_index == Len(acc.remaining_nodes)
             acc1 == [ remaining_nodes |-> Append(acc.remaining_nodes, current),
                       node_mapping |-> [acc.node_mapping EXCEPT ![current] = Some(new_index)] ]
         IN  collect_sons(t, node_at(t, current).sons, 1, node_to_delete, acc1)

\* The for-loop of collect_remaining_nodes over the sons, from the n-th on.
collect_sons(t, sons, n, node_to_delete, acc) ==
    IF n > Len(sons) THEN acc
    ELSE collect_sons(t, sons, n + 1, node_to_delete,
                      collect_remaining_nodes(t, sons[n][2], node_to_delete, acc))

\* remap_sons that keeps the old index of each kept son.
RECURSIVE remap_sons_old_index(_, _)
remap_sons_old_index(sons, node_mapping) ==
    IF sons = <<>> THEN <<>>
    ELSE LET s == Head(sons)
             rest == remap_sons_old_index(Tail(sons), node_mapping)
         IN  IF is_some(node_mapping[s[2]]) THEN <<s>> \o rest ELSE rest

\* remap_sons that lists the kept sons in reverse order.
RECURSIVE remap_sons_reversed(_, _)
remap_sons_reversed(sons, node_mapping) ==
    IF sons = <<>> THEN <<>>
    ELSE LET s == Head(sons)
             rest == remap_sons_reversed(Tail(sons), node_mapping)
         IN  IF is_some(node_mapping[s[2]])
             THEN rest \o <<<<s[1], unwrap(node_mapping[s[2]]), s[3]>>>>
             ELSE rest

\* The sons of a kept node: those that are kept, renumbered, in their order.
RECURSIVE remap_sons(_, _)
remap_sons(sons, node_mapping) ==
    IF sons = <<>> THEN <<>>
    ELSE LET s == Head(sons)
             rest == remap_sons(Tail(sons), node_mapping)
         IN  IF is_some(node_mapping[s[2]])
             THEN <<<<s[1], unwrap(node_mapping[s[2]]), s[3]>>>> \o rest
             ELSE rest

\* new_nodes: the kept nodes in the order of remaining_nodes, each with its
\* parent renumbered and its kept sons.
rebuilt_nodes(t, acc) ==
    [ n \in 1..Len(acc.remaining_nodes) |->
        LET old == node_at(t, acc.remaining_nodes[n])
        IN  [ board |-> old.board,
              sons |-> remap_sons(old.sons, acc.node_mapping),
              parent |-> IF is_some(old.parent)
                         THEN acc.node_mapping[unwrap(old.parent)]
                         ELSE None ] ]

\* The end of handle_delete_variation keeping the focus index as it was
\* (the root when it falls outside the new arena), without any event.
delete_focus_stale(t, new_nodes, node_mapping) ==
    [ tree |-> [ nodes |-> new_nodes, root |-> 0,
                 focus |-> IF t.focus < Len(new_nodes) THEN t.focus ELSE 0 ],
      events |-> <<>> ]

\* The end of handle_delete_variation: the new arena is installed, the
\* focus renumbered, or reset to the root with one UpdateBoard event.
delete_focus(t, new_nodes, node_mapping) ==
    IF node_mapping[t.focus] = None
    THEN [ tree |-> [nodes |-> new_nodes, root |-> 0, focus |-> 0],
           events |-> <<new_nodes[1].board>> ]
    ELSE [ tree |-> [ nodes |-> new_nodes, root |-> 0,
                      focus |-> unwrap(node_mapping[t.focus]) ],
           events |-> <<>> ]

delete_rebuilt(t, acc) == delete_focus(t, rebuilt_nodes(t, acc), acc.node_mapping)

\* The refusal that moves the focus to the root and announces its board.
delete_refused_refocus(t) ==
    [tree |-> [t EXCEPT !.focus = t.root], events |-> <<node_at(t, t.root).board>>]

\* The refusal of handle_delete_variation: a warning, nothing else.
delete_refused(t) == [tree |-> t, events |-> <<>>]

\* handle_delete_variation: the tree after the call and the UpdateBoard
\* events written (each event is the board it carries).
handle_delete_variation(t, node_to_delete) ==
    IF node_to_delete = t.root THEN delete_refused(t)
    ELSE delete_rebuilt(t,
             collect_remaining_nodes(t, t.root, node_to_delete,
                 [ remaining_nodes |-> <<>>,
                   node_mapping |-> [i \in 0..(Len(t.nodes) - 1) |-> None] ]))

\* str::trim: leading and trailing whitespace removed.
trim(s) ==
    LET solid == { n \in 1..Len(s) : ~is_whitespace(s[n]) }
    IN  IF solid = {} THEN <<>>
        ELSE SubSeq(s, CHOOSE n \in solid : \A m \in solid : n <= m,
                       CHOOSE n \in solid : \A m \in solid : m <= n)

\* str::split(c), collected: the pieces between the occurrences of c.
split_char(s, c) ==
    LET cuts == {0} \cup { n \in 1..Len(s) : s[n] = c }
        cut(i) == CHOOSE p \in cuts : Cardinality({ q \in cuts : q < p }) = i - 1
        stop(p) == LET later == { q \in cuts : q > p }
                   IN  IF later = {} THEN Len(s) + 1
                       ELSE CHOOSE q \in later : \A r \in later : q <= r
    IN  [i \in 1..Cardinality(cuts) |-> SubSeq(s, cut(i) + 1, stop(cut(i)) - 1)]

\* str::lines, collected: split at line feeds, an empty last piece dropped.
lines_of(s) ==
    LET pieces == split_char(s, NewLine)
    IN  IF pieces[Len(pieces)] = <<>> THEN SubSeq(pieces, 1, Len(pieces) - 1) ELSE pieces

\* strip_prefix('(').and_then(|s| s.strip_suffix(')'))
strip_parens(s) ==
    IF s # <<>> /\ Head(s) = "(" /\ Tail(s) # <<>> /\ s[Len(s)] = ")"
    THEN Some(SubSeq(s, 2, Len(s) - 1))
    ELSE None

\* str::splitn(2, ", "), collected.
splitn2_comma_space(s) ==
    LET at == { n \in 1..(Len(s) - 1) : s[n] = "," /\ s[n + 1] = " " }
    IN  IF at = {} THEN <<s>>
        ELSE LET n == CHOOSE i \in at : \A j \in at : i <= j
             IN  <<SubSeq(s, 1, n - 1), SubSeq(s, n + 2, Len(s))>>

\* Iterator::join of strings.
RECURSIVE join(_, _)
join(parts, sep) ==
    IF parts = <<>> THEN <<>>
    ELSE IF Len(parts) = 1 THEN parts[1]
    ELSE parts[1] \o sep \o join(Tail(parts), sep)

TREE_TITLE ==
    <<"[", "c", "h", "e", "s", "s", " ", "g", "a", "m", "e", " ", "t", "r",
       "e", "e", "]">>

\* format!("({}, {})", son, move_data.san)
son_text(son) == <<"(">> \o to_string(son[2]) \o <<",", " ">> \o son[3].san \o <<")">>

node_text(node) == join([n \in 1..Len(node.sons) |-> son_text(node.sons[n])], <<"|">>)

GameTree_to_string(t) ==
    LET initial == write_fen(node_at(t, t.root).board)
        nodes == to_string(Len(t.nodes))
        info == join([n \in 1..Len(t.nodes) |-> node_text(t.nodes[n])], <<NewLine>>)
    IN  TREE_TITLE \o <<NewLine>> \o initial \o <<NewLine>> \o nodes \o <<NewLine>> \o info

\* One move_info of a node line applied to the arena under construction,
\* in the steps of the loop body.  st.kind is "Some" while the parse goes
\* on, "None" once it has returned None and "Panic" once an index or an
\* unwrap has panicked.

\* The son is recorded with its MoveData, text being write_step of the
\* move on the board of the node as it is after the son got its board.
entry_label(st, node_id, son_id, step, text) ==
    IF ~is_some(text) THEN [st EXCEPT !.kind = "Panic"]
    ELSE [st EXCEPT !.nodes[node_id + 1].sons =
             Append(@, << step, son_id,
                          MoveData(st.nodes[node_id + 1].board.fullmove, unwrap(text),
                                   st.nodes[node_id + 1].board.active_color) >>)]

\* The son gets its board and its parent.
entry_place(st, node_id, son_id, step, moved) ==
    [st EXCEPT !.nodes[son_id + 1].board = moved,
               !.nodes[son_id + 1].parent = Some(node_id)]

entry_placed(st, node_id, son_id, step) ==
    entry_label(st, node_id, son_id, step, write_step(st.nodes[node_id + 1].board, step))

entry_moved(st, node_id, nodes_count, son_id, step, moved) ==
    IF ~is_some(moved) THEN [st EXCEPT !.kind = "None"]
    ELSE IF son_id >= nodes_count THEN [st EXCEPT !.kind = "Panic"]
    ELSE entry_placed(entry_place(st, node_id, son_id, step, unwrap(moved)),
                      node_id, son_id, step)

entry_step(st, node_id, nodes_count, son_id, step) ==
    IF ~is_some(step) THEN [st EXCEPT !.kind = "None"]
    ELSE entry_moved(st, node_id, nodes_count, son_id, unwrap(step),
                     try_move(st.nodes[node_id + 1].board, unwrap(step)))

entry_parts(st, node_id, nodes_count, parts) ==
    IF Len(parts) # 2 THEN st
    ELSE IF ~is_some(parse_usize(parts[1])) THEN [st EXCEPT !.kind = "None"]
    ELSE entry_step(st, node_id, nodes_count, unwrap(parse_usize(parts[1])),
                    read_step(st.nodes[node_id + 1].board, parts[2]))

from_string_entry(st, node_id, nodes_count, move_info) ==
    IF st.kind # "Some" THEN st
    ELSE IF ~is_some(strip_parens(move_info)) THEN st
    ELSE entry_parts(st, node_id, nodes_count,
                     splitn2_comma_space(unwrap(strip_parens(move_info))))

RECURSIVE from_string_entries(_, _, _, _, _)
from_string_entries(st, node_id, nodes_count, move_infos, n) ==
    IF n > Len(move_infos) THEN st
    ELSE from_string_entries(from_string_entry(st, node_id, nodes_count, move_infos[n]),
                             node_id, nodes_count, move_infos, n + 1)

\* The loop over info_lines, from the line of node_id on.
RECURSIVE from_string_lines(_, _, _, _)
from_string_lines(st, info_lines, node_id, nodes_count) ==
    IF node_id >= Len(info_lines) \/ node_id >= nodes_count \/ st.kind # "Some" THEN st
    ELSE from_string_lines(
             from_string_entries(st, node_id, nodes_count,
                                 split_char(info_lines[node_id + 1], "|"), 1),
             info_lines, node_id + 1, nodes_count)

\* The arena the parse ends with, as the result of from_string.
from_string_result(st) ==
    [kind |-> st.kind, tree |-> [nodes |-> st.nodes, root |-> 0, focus |-> 0]]

\* from_string once the lines are split.
from_string_of_lines(lines) ==
    IF Len(lines) < 4 \/ lines[1] # TREE_TITLE
    THEN [kind |-> "None", tree |-> [nodes |-> <<>>, root |-> 0, focus |-> 0]]
    ELSE
    LET parsed == parse_usize(lines[3])
        nodes_count == IF is_some(parsed) THEN unwrap(parsed) ELSE 0
    IN  from_string_result(
            from_string_lines(
                [ kind |-> "Some",
                  nodes |-> [n \in 1..nodes_count |-> GameTreeNode_new(read_fen(lines[2]))] ],
                SubSeq(lines, 4, Len(lines)), 0, nodes_count))

\* GameTree::from_string: kind is "Some" with the tree built, "None", or
\* "Panic" when the call panics.
GameTree_from_string(s) == from_string_of_lines(lines_of(trim(s)))

----------------------------------------------------------------------------
(* The session: a position played on from the standard start or from a     *)
(* loaded FEN.  The moves are those of try_move; the scripted lines below   *)
(* lead the play from the standard start into the special cases (mate, en   *)
(* passant, castling and its refusals), and up to MaxFree further moves are *)
(* chosen freely among all 64 x 64 steps.                                   *)

MaxFree == 1

\* Fool's mate.
\* f2f3 e7e5 g2g4 d8h4
LineFoolsMate ==
    << Step(<<5, 1>>, <<5, 2>>),
       Step(<<4, 6>>, <<4, 4>>),
       Step(<<6, 1>>, <<6, 3>>),
       Step(<<3, 7>>, <<7, 3>>) >>

\* An en-passant capture by Black (a4xb3) and one by White (e5xd6).
\* e2e4 a7a5 e4e5 a5a4 b2b4 a4b3 c2b3 d7d5 e5d6
LineEnPassant ==
    << Step(<<4, 1>>, <<4, 3>>),
       Step(<<0, 6>>, <<0, 4>>),
       Step(<<4, 3>>, <<4, 4>>),
       Step(<<0, 4>>, <<0, 3>>),
       Step(<<1, 1>>, <<1, 3>>),
       Step(<<0, 3>>, <<1, 2>>),
       Step(<<2, 1>>, <<1, 2>>),
       Step(<<3, 6>>, <<3, 4>>),
       Step(<<4, 4>>, <<3, 5>>) >>

\* Both sides castle king-side.
\* e2e4 e7e5 g1f3 g8f6 f1c4 f8c5 e1g1 e8g8
LineCastleKingSide ==
    << Step(<<4, 1>>, <<4, 3>>),
       Step(<<4, 6>>, <<4, 4>>),
       Step(<<6, 0>>, <<5, 2>>),
       Step(<<6, 7>>, <<5, 5>>),
       Step(<<5, 0>>, <<2, 3>>),
       Step(<<5, 7>>, <<2, 4>>),
       Step(<<4, 0>>, <<6, 0>>),
       Step(<<4, 7>>, <<6, 7>>) >>

\* Both sides castle queen-side.
\* d2d4 d7d5 b1c3 b8c6 c1f4 c8f5 d1d2 d8d7 e1c1 e8c8
LineCastleQueenSide ==
    << Step(<<3, 1>>, <<3, 3>>),
       Step(<<3, 6>>, <<3, 4>>),
       Step(<<1, 0>>, <<2, 2>>),
       Step(<<1, 7>>, <<2, 5>>),
       Step(<<2, 0>>, <<5, 3>>),
       Step(<<2, 7>>, <<5, 4>>),
       Step(<<3, 0>>, <<3, 1>>),
       Step(<<3, 7>>, <<3, 6>>),
       Step(<<4, 0>>, <<2, 0>>),
       Step(<<4, 7>>, <<2, 7>>) >>

\* The h1 rook leaves its corner, then White plays e1g1.
\* h2h4 a7a6 h1h3 a6a5 g1f3 a5a4 g2g3 b7b6 f1g2 b6b5 e1g1
LineRookLeaves ==
    << Step(<<7, 1>>, <<7, 3>>),
       Step(<<0, 6>>, <<0, 5>>),
       Step(<<7, 0>>, <<7, 2>>),
       Step(<<0, 5>>, <<0, 4>>),
       Step(<<6, 0>>, <<5, 2>>),
       Step(<<0, 4>>, <<0, 3>>),
       Step(<<6, 1>>, <<6, 2>>),
       Step(<<1, 6>>, <<1, 5>>),
       Step(<<5, 0>>, <<6, 1>>),
       Step(<<1, 5>>, <<1, 4>>),
       Step(<<4, 0>>, <<6, 0>>) >>

\* White's f1 comes under attack from a6 with f1, g1 empty and the flag set.
\* g2g3 b7b6 f1g2 c8a6 g1f3 e7e6 e2e3 h7h6
LineTransitAttacked ==
    << Step(<<6, 1>>, <<6, 2>>),
       Step(<<1, 6>>, <<1, 5>>),
       Step(<<5, 0>>, <<6, 1>>),
       Step(<<2, 7>>, <<0, 5>>),
       Step(<<6, 0>>, <<5, 2>>),
       Step(<<4, 6>>, <<4, 5>>),
       Step(<<4, 1>>, <<4, 2>>),
       Step(<<7, 6>>, <<7, 5>>) >>

\* White is checked from b4 with f1, g1 empty and the flag set.
\* g2g3 e7e6 f1g2 a7a6 g1f3 a6a5 d2d3 f8b4
LineKingChecked ==
    << Step(<<6, 1>>, <<6, 2>>),
       Step(<<4, 6>>, <<4, 5>>),
       Step(<<5, 0>>, <<6, 1>>),
       Step(<<0, 6>>, <<0, 5>>),
       Step(<<6, 0>>, <<5, 2>>),
       Step(<<0, 5>>, <<0, 4>>),
       Step(<<3, 1>>, <<3, 2>>),
       Step(<<5, 7>>, <<1, 3>>) >>

\* The h-pawn takes its way to g8 and is promoted there.
\* h2h4 g7g5 h4g5 a7a6 g5g6 a6a5 g6h7 a5a4 h7g8
LinePromotion ==
    << Step(<<7, 1>>, <<7, 3>>),
       Step(<<6, 6>>, <<6, 4>>),
       Step(<<7, 3>>, <<6, 4>>),
       Step(<<0, 6>>, <<0, 5>>),
       Step(<<6, 4>>, <<6, 5>>),
       Step(<<0, 5>>, <<0, 4>>),
       Step(<<6, 5>>, <<7, 6>>),
       Step(<<0, 4>>, <<0, 3>>),
       Step(<<7, 6>>, <<6, 7>>) >>

Lines ==
    << LineFoolsMate,
       LineEnPassant,
       LineCastleKingSide,
       LineCastleQueenSide,
       LineRookLeaves,
       LineTransitAttacked,
       LineKingChecked,
       LinePromotion >>

\* Black to move is stalemated.
\* 7k/5Q2/6K1/8/8/8/8/8 b - - 0 1
FenStalemate ==
    <<"7", "k", "/", "5", "Q", "2", "/", "6", "K", "1", "/", "8", "/", "8",
       "/", "8", "/", "8", "/", "8", " ", "b", " ", "-", " ", "-", " ",
       "0", " ", "1">>

\* White to move can stalemate, mate or check.
\* 7k/8/6K1/8/8/5Q2/8/8 w - - 12 34
FenBeforeStalemate ==
    <<"7", "k", "/", "8", "/", "6", "K", "1", "/", "8", "/", "8", "/", "5",
       "Q", "2", "/", "8", "/", "8", " ", "w", " ", "-", " ", "-", " ",
       "1", "2", " ", "3", "4">>

\* Kings and rooks on their home squares, all four flags set.
\* r3k2r/8/8/8/8/8/8/R3K2R w KQkq - 0 1
FenRooksAndKings ==
    <<"r", "3", "k", "2", "r", "/", "8", "/", "8", "/", "8", "/", "8", "/",
       "8", "/", "8", "/", "R", "3", "K", "2", "R", " ", "w", " ", "K",
       "Q", "k", "q", " ", "-", " ", "0", " ", "1">>

\* Black to move has no king.
\* 8/8/8/8/8/8/p7/7K b - - 0 1
FenNoKing ==
    <<"8", "/", "8", "/", "8", "/", "8", "/", "8", "/", "8", "/", "p", "7",
       "/", "7", "K", " ", "b", " ", "-", " ", "-", " ", "0", " ", "1">>

\* A black pawn is one step from the first rank.
\* 4k3/8/8/8/8/8/p7/4K3 b - - 0 1
FenBlackPromotes ==
    <<"4", "k", "3", "/", "8", "/", "8", "/", "8", "/", "8", "/", "8", "/",
       "p", "7", "/", "4", "K", "3", " ", "b", " ", "-", " ", "-", " ",
       "0", " ", "1">>

FenInputs ==
    << FenStalemate,
       FenBeforeStalemate,
       FenRooksAndKings,
       FenNoKing,
       FenBlackPromotes >>

\* Board::default()
Board_default == read_fen(INITIAL_FEN)

\* read_fen of each text the FEN window is given.
LoadedBoards == [n \in 1..Len(FenInputs) |-> read_fen(FenInputs[n])]

----------------------------------------------------------------------------
(* The game tree of the session: GameTree::new on the standard start or on *)
(* a loaded position, then GameTree::try_move of a few steps, the          *)
(* navigation buttons, the clicks on a move, the context menu, the         *)
(* DeleteVariationEvent handler and "Load game tree".  before is the tree  *)
(* the last operation found, op the operation with its argument and        *)
(* result, events the UpdateBoard events it wrote (each event is the board *)
(* it carries), source tells whether the tree was built by GameTree::new   *)
(* and the operations or installed from a text.                            *)

MaxNodes == 3

\* e2e4, d2d4, e7e5, the castlings e1c1 and e8g8, and e2e5 (never legal).
TreeSteps ==
    { Step(<<4, 1>>, <<4, 3>>),
      Step(<<3, 1>>, <<3, 3>>),
      Step(<<4, 6>>, <<4, 4>>),
      Step(<<4, 0>>, <<2, 0>>),
      Step(<<4, 7>>, <<6, 7>>),
      Step(<<4, 1>>, <<4, 4>>) }

\* The positions GameTree::new is given: the standard start, and kings and
\* rooks on their home squares with all castling rights.
TreeRoots == { Board_default, read_fen(FenRooksAndKings) }

\* A tree text over the standard start with the given node-count line and
\* line of the root.
TreeTextOf(count_line, root_line) ==
    TREE_TITLE \o <<NewLine>> \o INITIAL_FEN \o <<NewLine>> \o count_line
        \o <<NewLine>> \o root_line

\* The node-count line is not a number.
TextBadCount == TreeTextOf(<<"t", "w", "o">>, <<"(", "1", ",", " ", "e", "4", ")">>)

\* The second entry of the root's line is not of the form (childIndex, SAN).
TextBadEntry ==
    TreeTextOf(<<"2">>, <<"(", "1", ",", " ", "e", "4", ")", "|", "1", ",", " ", "d", "4">>)

\* The child index is not a number.
TextBadChild == TreeTextOf(<<"2">>, <<"(", "x", ",", " ", "e", "4", ")">>)

\* The child index equals the declared node count.
TextBadIndex == TreeTextOf(<<"2">>, <<"(", "2", ",", " ", "e", "4", ")">>)

\* The SAN is no move of the root position.
TextBadSan == TreeTextOf(<<"2">>, <<"(", "1", ",", " ", "e", "5", ")">>)

TreeTexts == { TextBadCount, TextBadEntry, TextBadChild, TextBadIndex, TextBadSan }

\* Two entries of the root's line name the same child.
TextTwinChild ==
    TreeTextOf(<<"2">>, <<"(", "1", ",", " ", "e", "4", ")", "|",
                          "(", "1", ",", " ", "d", "4", ")">>)

\* Four nodes; the lines of nodes 2 and 3 name each other as children, and
\* the line of node 2 names node 1, the child of the root, again.
\* (1, e4) / - / (1, e4)|(3, d4) / (2, d5)
TextParentCycle ==
    TreeTextOf(<<"4">>,
               <<"(", "1", ",", " ", "e", "4", ")", NewLine, "-", NewLine,
                 "(", "1", ",", " ", "e", "4", ")", "|",
                 "(", "3", ",", " ", "d", "4", ")", NewLine,
                 "(", "2", ",", " ", "d", "5", ")">>)

Operation(kind, arg, ret, panic) == [kind |-> kind, arg |-> arg, ret |-> ret, panic |-> panic]

TreeInit ==
    /\ tree = GameTree_new(Board_default)
    /\ before = GameTree_new(Board_default)
    /\ op = Operation("new", Board_default, "-", FALSE)
    /\ events = <<>>
    /\ source = "new"

Init ==
    /\ board = Board_default
    /\ prev = Board_default
    /\ last = None
    /\ san = None
    /\ origin = "start"
    /\ line = 0
    /\ k = 0
    /\ free = 0
    /\ TreeInit

\* A move accepted by try_move on the current position; the SAN text of the
\* move is written on the position before the move, as the game tree does
\* when it labels the move.
Move(step) ==
    LET r == try_move(board, step)
    IN  /\ is_some(r)
        /\ board' = unwrap(r)
        /\ prev' = board
        /\ last' = Some(step)
        /\ san' = write_step(board, step)

\* The next move of one of the scripted lines, from the standard start.
ScriptedMove ==
    /\ origin = "start"
    /\ free = 0
    /\ \E l \in 1..Len(Lines) :
          /\ line = 0 \/ line = l
          /\ k < Len(Lines[l])
          /\ Move(Lines[l][k + 1])
          /\ line' = l
    /\ k' = k + 1
    /\ UNCHANGED <<origin, free, treeVars>>

\* Any step of the board, tried on the current position.
FreeMove ==
    /\ free < MaxFree
    /\ \E f \in AllSquares : \E t \in AllSquares : Move(Step(f, t))
    /\ free' = free + 1
    /\ UNCHANGED <<origin, line, k, treeVars>>

\* "Load" of the FEN window: the position is replaced by read_fen of the text.
LoadFen ==
    /\ \E n \in 1..Len(FenInputs) :
          /\ board' = LoadedBoards[n]
          /\ prev' = LoadedBoards[n]
    /\ last' = None
    /\ san' = None
    /\ origin' = "fen"
    /\ line' = 0
    /\ k' = 0
    /\ free' = 0
    /\ UNCHANGED treeVars

\* "New Game": back to the standard start.
NewGame ==
    /\ board' = Board_default
    /\ prev' = Board_default
    /\ last' = None
    /\ san' = None
    /\ origin' = "start"
    /\ line' = 0
    /\ k' = 0
    /\ free' = 0
    /\ UNCHANGED treeVars

Next == ScriptedMove \/ FreeMove \/ LoadFen \/ NewGame

Spec == Init /\ [][Next]_vars

----------------------------------------------------------------------------
(* write_step applied to chosen positions. *)

\* Three white queens that reach b2 (a1 shares its file with a3 and its
\* rank with c1) and two rooks on the h-file that reach h3.
\* 4k3/8/8/7R/8/Q7/8/Q1Q1K2R w - - 0 1
FenQueensAndRooks ==
    <<"4", "k", "3", "/", "8", "/", "8", "/", "7", "R", "/", "8", "/", "Q",
       "7", "/", "8", "/", "Q", "1", "Q", "1", "K", "2", "R", " ", "w",
       " ", "-", " ", "-", " ", "0", " ", "1">>

\* Two white knights that reach c3 from different files and two pawns
\* that capture on b5.
\* 7k/8/8/1p1N4/P1P5/8/8/1N2K3 w - - 0 1
FenKnightsAndPawns ==
    <<"7", "k", "/", "8", "/", "8", "/", "1", "p", "1", "N", "4", "/", "P",
       "1", "P", "5", "/", "8", "/", "8", "/", "1", "N", "2", "K", "3",
       " ", "w", " ", "-", " ", "-", " ", "0", " ", "1">>

\* Two white knights aim at c3 and d2, the one on e2 pinned to its king.
\* 4r2k/8/8/8/8/8/4N3/1N2K3 w - - 0 1
FenPinnedKnight ==
    <<"4", "r", "2", "k", "/", "8", "/", "8", "/", "8", "/", "8", "/", "8",
       "/", "4", "N", "3", "/", "1", "N", "2", "K", "3", " ", "w", " ",
       "-", " ", "-", " ", "0", " ", "1">>

\* Two black rooks on the eighth rank that reach d8, Black to move.
\* r6r/4k3/8/8/8/8/8/4K3 b - - 0 1
FenBlackRooks ==
    <<"r", "6", "r", "/", "4", "k", "3", "/", "8", "/", "8", "/", "8", "/",
       "8", "/", "8", "/", "4", "K", "3", " ", "b", " ", "-", " ", "-",
       " ", "0", " ", "1">>

\* White can castle king-side and the rook then checks the king on f8.
\* 5k2/8/8/8/8/8/8/4K2R w K - 0 1
FenCastleCheck ==
    <<"5", "k", "2", "/", "8", "/", "8", "/", "8", "/", "8", "/", "8", "/",
       "8", "/", "4", "K", "2", "R", " ", "w", " ", "K", " ", "-", " ",
       "0", " ", "1">>

SanFens ==
    << INITIAL_FEN, FenQueensAndRooks, FenKnightsAndPawns, FenPinnedKnight,
       FenBlackRooks, FenBeforeStalemate, FenCastleCheck >>

\* read_fen of each text.
SanBoards == [n \in 1..Len(SanFens) |-> read_fen(SanFens[n])]

\* The position of the n-th text is on the board and no move has been played.
SanAt(n) ==
    /\ board = SanBoards[n]
    /\ prev = SanBoards[n]
    /\ last = None
    /\ san = None
    /\ origin = "fen"
    /\ line = n
    /\ k = 0
    /\ free = 0
    /\ TreeInit

InitSan == SanAt(1)

\* Another of the positions is loaded.
SanLoad ==
    /\ \E n \in 1..Len(SanFens) :
          /\ board' = SanBoards[n]
          /\ prev' = SanBoards[n]
          /\ line' = n
    /\ last' = None
    /\ san' = None
    /\ UNCHANGED <<origin, k, free, treeVars>>

\* One step is tried on the loaded position and, when accepted, written.
SanMove ==
    /\ last = None
    /\ \E f \in AllSquares : \E t \in AllSquares : Move(Step(f, t))
    /\ UNCHANGED <<origin, line, k, free, treeVars>>

NextSan == SanLoad \/ SanMove

SpecSan == InitSan /\ [][NextSan]_vars

\* The program has panicked: nothing runs any more.
Crashed == op.panic

Indices(t) == 0..(Len(t.nodes) - 1)

\* The nodes display_egui draws a label for: those reached from the root
\* through the sons.
RECURSIVE drawn_from(_, _)
drawn_from(t, i) ==
    LET sons == node_at(t, i).sons
    IN  UNION { {sons[n][2]} \cup drawn_from(t, sons[n][2]) : n \in 1..Len(sons) }

Drawn(t) == drawn_from(t, t.root)

\* "Load" of the FEN window, "New Game" there and in the menu.
TreeNew ==
    /\ ~Crashed
    /\ \E b \in TreeRoots :
          /\ tree' = GameTree_new(b)
          /\ op' = Operation("new", b, "-", FALSE)
          /\ events' = <<b>>
    /\ before' = tree
    /\ source' = "new"
    /\ UNCHANGED sessionVars

\* The outcome r of GameTree::try_move of a step is taken.
TreeTried(step, r) ==
    /\ Len(r.tree.nodes) <= MaxNodes
    /\ tree' = r.tree
    /\ op' = Operation("try_move", step, IF r.ret THEN "true" ELSE "false", FALSE)

\* GameTree::try_move of a step.
TreeTryMove ==
    /\ ~Crashed
    /\ \E step \in TreeSteps : TreeTried(step, GameTree_try_move(tree, step))
    /\ before' = tree
    /\ events' = <<>>
    /\ UNCHANGED <<source, sessionVars>>

\* The button "<<".
TreeMoveToStart ==
    /\ ~Crashed
    /\ ~is_first_board(tree)
    /\ tree' = move_to_start(tree)
    /\ before' = tree
    /\ op' = Operation("move_to_start", 0, "-", FALSE)
    /\ events' = <<GameTree_board(tree')>>
    /\ UNCHANGED <<source, sessionVars>>

\* The button "<".
TreeMoveBackward ==
    /\ ~Crashed
    /\ ~is_first_board(tree)
    /\ tree' = move_backward(tree)
    /\ before' = tree
    /\ op' = Operation("move_backward", 0, "-", FALSE)
    /\ events' = <<GameTree_board(tree')>>
    /\ UNCHANGED <<source, sessionVars>>

\* The button ">".
TreeMoveForward ==
    /\ ~Crashed
    /\ ~is_last_board(tree)
    /\ tree' = move_forward(tree)
    /\ before' = tree
    /\ op' = Operation("move_forward", 0, "-", FALSE)
    /\ events' = <<GameTree_board(tree')>>
    /\ UNCHANGED <<source, sessionVars>>

\* The button ">>".
TreeMoveToEnd ==
    /\ ~Crashed
    /\ ~is_last_board(tree)
    /\ tree' = move_to_end(tree)
    /\ before' = tree
    /\ op' = Operation("move_to_end", 0, "-", FALSE)
    /\ events' = <<GameTree_board(tree')>>
    /\ UNCHANGED <<source, sessionVars>>

\* A click on the label of a move.
TreeMoveToNode ==
    /\ ~Crashed
    /\ \E idx \in Drawn(tree) :
          /\ tree' = move_to_node(tree, idx)
          /\ op' = Operation("move_to_node", idx, "-", FALSE)
    /\ before' = tree
    /\ events' = <<GameTree_board(tree')>>
    /\ UNCHANGED <<source, sessionVars>>

\* "Promote Variation" in the context menu of a move.
TreePromoteVariation ==
    /\ ~Crashed
    /\ \E current \in Drawn(tree) :
          /\ tree' = promote_variation(tree, current)
          /\ op' = Operation("promote_variation", current, "-", FALSE)
    /\ before' = tree
    /\ events' = <<>>
    /\ UNCHANGED <<source, sessionVars>>

\* "Set as mainline" in the context menu of a move.
TreeSetAsMainline ==
    /\ ~Crashed
    /\ \E current \in Drawn(tree) :
          /\ tree' = set_as_mainline(tree, current)
          /\ op' = Operation("set_as_mainline", current, "-", FALSE)
    /\ before' = tree
    /\ events' = <<>>
    /\ UNCHANGED <<source, sessionVars>>

\* The outcome r of handle_delete_variation is taken.
TreeDeleted(node_to_delete, r) ==
    /\ tree' = r.tree
    /\ events' = r.events
    /\ op' = Operation("delete_variation", node_to_delete, "-", FALSE)

\* handle_delete_variation_events for an event naming a node of the tree.
TreeDeleteVariation ==
    /\ ~Crashed
    /\ \E node_to_delete \in Indices(tree) :
          TreeDeleted(node_to_delete, handle_delete_variation(tree, node_to_delete))
    /\ before' = tree
    /\ UNCHANGED <<source, sessionVars>>

\* The outcome r of from_string on the text is taken: a tree read is
\* installed and its focus board announced (GameTree::board panics on an
\* arena without nodes); None leaves the tree in place.
TreeLoaded(text, r) ==
    /\ op' = Operation("load", text, r.kind,
                       r.kind = "Panic" \/ (r.kind = "Some" /\ r.tree.nodes = <<>>))
    /\ tree' = IF r.kind = "Some" THEN r.tree ELSE tree
    /\ events' = IF r.kind = "Some" /\ r.tree.nodes # <<>>
                 THEN <<GameTree_board(r.tree)>> ELSE <<>>
    /\ source' = IF r.kind = "Some" THEN "text" ELSE source

\* "Load game tree" of the menu on a text: one of the texts above or the
\* text "Copy current game tree" gives for the tree.
TreeLoad ==
    /\ ~Crashed
    /\ \E text \in TreeTexts \cup {TextTwinChild, GameTree_to_string(tree)} :
          TreeLoaded(text, GameTree_from_string(text))
    /\ before' = tree
    /\ UNCHANGED sessionVars

NextTree ==
    \/ TreeNew
    \/ TreeTryMove
    \/ TreeMoveToStart
    \/ TreeMoveBackward
    \/ TreeMoveForward
    \/ TreeMoveToEnd
    \/ TreeMoveToNode
    \/ TreePromoteVariation
    \/ TreeSetAsMainline
    \/ TreeDeleteVariation
    \/ TreeLoad

SpecTree == Init /\ [][NextTree]_vars

----------------------------------------------------------------------------
(* A game with variations is played on the board, then its moves are       *)
(* navigated, promoted and set as mainline.  k counts the inputs of the    *)
(* game that were given.                                                   *)

Play(step) == <<"try_move", step>>

Back == <<"move_backward">>

\* 1. e4 (1. d4 d5 (1... e5)) (1. c4): the root has three sons and the
\* second of them two.
VariationGame ==
    << Play(Step(<<4, 1>>, <<4, 3>>)), Back,
       Play(Step(<<3, 1>>, <<3, 3>>)), Play(Step(<<3, 6>>, <<3, 4>>)), Back,
       Play(Step(<<4, 6>>, <<4, 4>>)), Back, Back,
       Play(Step(<<2, 1>>, <<2, 3>>)) >>

\* The outcome r of GameTree::try_move of the step is taken.
VariationTried(step, r) ==
    /\ tree' = r.tree
    /\ op' = Operation("try_move", step, IF r.ret THEN "true" ELSE "false", FALSE)
    /\ events' = <<>>

\* The next input of the game: a move dragged on the board or the button "<".
VariationPlay ==
    /\ k < Len(VariationGame)
    /\ LET input == VariationGame[k + 1]
       IN  IF input[1] = "try_move"
           THEN VariationTried(input[2], GameTree_try_move(tree, input[2]))
           ELSE /\ tree' = move_backward(tree)
                /\ op' = Operation("move_backward", 0, "-", FALSE)
                /\ events' = <<GameTree_board(move_backward(tree))>>
    /\ before' = tree
    /\ k' = k + 1
    /\ UNCHANGED <<board, prev, last, san, origin, line, free, source>>

GamePlayed == k = Len(VariationGame)

NextVariations ==
    \/ VariationPlay
    \/ GamePlayed /\ TreeMoveToStart
    \/ GamePlayed /\ TreeMoveBackward
    \/ GamePlayed /\ TreeMoveForward
    \/ GamePlayed /\ TreeMoveToEnd
    \/ GamePlayed /\ TreeMoveToNode
    \/ GamePlayed /\ TreePromoteVariation
    \/ GamePlayed /\ TreeSetAsMainline
    \/ GamePlayed /\ TreeDeleteVariation

SpecVariations == Init /\ [][NextVariations]_vars

----------------------------------------------------------------------------
(* "Load PGN" of the menu on move texts of up to MaxTokens tokens.         *)

MaxTokens == 3

\* e4, e5, Nf3 and a token that is no move text.
PgnTokens ==
    { <<"e", "4">>, <<"e", "5">>, <<"N", "f", "3">>, <<"Z", "z", "9">> }

PgnTokenLists == UNION { [1..n -> PgnTokens] : n \in 0..MaxTokens }

\* A move text is in the "Load PGN" box.
InitPgn ==
    /\ board = Board_default
    /\ prev = Board_default
    /\ last = None
    /\ san = None
    /\ origin = "start"
    /\ line = 0
    /\ k = 0
    /\ free = 0
    /\ tree = GameTree_new(Board_default)
    /\ before = GameTree_new(Board_default)
    /\ \E steps \in PgnTokenLists : op = Operation("pgn_text", steps, "-", FALSE)
    /\ events = <<>>
    /\ source = "new"

\* The tree from_pgn built is installed and the board of its focus announced.
PgnLoaded(t) ==
    /\ tree' = t
    /\ events' = <<GameTree_board(t)>>
    /\ board' = GameTree_board(t)
    /\ prev' = GameTree_board(t)

\* "Load" next to "Load PGN" on the text in the box.
PgnLoad ==
    /\ op.kind = "pgn_text"
    /\ PgnLoaded(GameTree_from_pgn(op.arg))
    /\ op' = Operation("from_pgn", op.arg, "-", FALSE)
    /\ before' = tree
    /\ source' = "pgn"
    /\ UNCHANGED <<last, san, origin, line, k, free>>

NextPgn == PgnLoad

SpecPgn == InitPgn /\ [][NextPgn]_vars

----------------------------------------------------------------------------
(* "Load" of the FEN window on texts of zero to six fields, each field    *)
(* well formed or not.  A field is a text with the value the interface of  *)
(* read_fen gives it: the value it denotes, or the default of the field    *)
(* when it denotes none.                                                   *)

Field(text, value) == [text |-> text, value |-> value]

AllFlags == <<TRUE, TRUE, TRUE, TRUE>>

NoFlags == <<FALSE, FALSE, FALSE, FALSE>>

\* The placement of the standard start; letters that name no piece; nine
\* pawns on one rank; a king after a letter that names no piece.
PlacementFields ==
    { Field(SubSeq(INITIAL_FEN, 1, 43), Board_default.pieces),
      Field(<<"x", "y", "z">>, Pieces_new),
      Field(<<"p", "p", "p", "p", "p", "p", "p", "p", "p">>, Pieces_new),
      Field(<<"z", "K">>, Pieces_new) }

ColorFields ==
    { Field(<<"w">>, "White"), Field(<<"b">>, "Black"), Field(<<"x">>, "White") }

CastlingFields ==
    { Field(<<"K", "Q", "k", "q">>, AllFlags),
      Field(<<"-">>, NoFlags),
      Field(<<"K", "q">>, <<TRUE, FALSE, FALSE, TRUE>>),
      Field(<<"x", "y">>, AllFlags) }

EnPassantFields ==
    { Field(<<"-">>, None),
      Field(<<"e", "3">>, Some(<<4, 2>>)),
      Field(<<"e">>, None),
      Field(<<"e", "x">>, None),
      Field(<<"e", "0">>, None) }

HalfmoveFields == { Field(<<"1", "7">>, 17), Field(<<"x">>, 0) }

FullmoveFields == { Field(<<"2", "3">>, 23), Field(<<"y">>, 1) }

\* The values of the fields a text lacks.
FieldDefaults == << Pieces_new, "White", AllFlags, None, 0, 1 >>

\* The first n fields of a text, for n from 0 to 6.
FenFields ==
    {<<>>}
    \cup { <<p>> : p \in PlacementFields }
    \cup { <<p, c>> : p \in PlacementFields, c \in ColorFields }
    \cup { <<p, c, a>> : p \in PlacementFields, c \in ColorFields, a \in CastlingFields }
    \cup { <<p, c, a, e>> : p \in PlacementFields, c \in ColorFields,
                            a \in CastlingFields, e \in EnPassantFields }
    \cup { <<p, c, a, e, h>> : p \in PlacementFields, c \in ColorFields,
                               a \in CastlingFields, e \in EnPassantFields,
                               h \in HalfmoveFields }
    \cup { <<p, c, a, e, h, f>> : p \in PlacementFields, c \in ColorFields,
                                  a \in CastlingFields, e \in EnPassantFields,
                                  h \in HalfmoveFields, f \in FullmoveFields }

FenTextOf(fields) == join([i \in 1..Len(fields) |-> fields[i].text], <<" ">>)

\* A text is in the "Load FEN" box.
InitFen ==
    /\ board = Board_default
    /\ prev = Board_default
    /\ last = None
    /\ san = None
    /\ origin = "start"
    /\ line = 0
    /\ k = 0
    /\ free = 0
    /\ tree = GameTree_new(Board_default)
    /\ before = GameTree_new(Board_default)
    /\ \E fields \in FenFields : op = Operation("fen_text", fields, "-", FALSE)
    /\ events = <<>>
    /\ source = "new"

\* The outcome r of read_fen is taken: the board is announced and a new tree
\* starts from it, or the program has panicked.
FenLoaded(r) ==
    IF is_some(r)
    THEN /\ board' = unwrap(r)
         /\ prev' = unwrap(r)
         /\ tree' = GameTree_new(unwrap(r))
         /\ events' = <<unwrap(r)>>
         /\ op' = Operation("read_fen", op.arg, "Board", FALSE)
    ELSE /\ op' = Operation("read_fen", op.arg, "Panic", TRUE)
         /\ UNCHANGED <<board, prev, tree, events>>

\* "Load" of the FEN window on the text in the box.
FenRead ==
    /\ op.kind = "fen_text"
    /\ \E r \in read_fen_outcomes(FenTextOf(op.arg)) : FenLoaded(r)
    /\ before' = tree
    /\ UNCHANGED <<last, san, origin, line, k, free, source>>

NextFen == FenRead

SpecFen == InitFen /\ [][NextFen]_vars

----------------------------------------------------------------------------
(* The loops of the buttons "<<" and ">>", one iteration at a time, on the *)
(* trees the program holds: built by moves, promotions and deletions, read *)
(* from a move list or loaded from a text.  While a loop runs nothing else *)
(* does.                                                                   *)

Running == op.ret = "running"

\* The button "<<" and the loop of move_to_start: the click makes the first
\* test of the loop, each further step the next one.
ToStartStep ==
    /\ ~Crashed
    /\ IF Running THEN op.kind = "move_to_start" ELSE ~is_first_board(tree)
    /\ IF is_some(node_at(tree, tree.focus).parent)
       THEN /\ tree' = [tree EXCEPT !.focus = unwrap(node_at(tree, tree.focus).parent)]
            /\ op' = Operation("move_to_start", 0, "running", FALSE)
            /\ events' = <<>>
       ELSE /\ tree' = tree
            /\ op' = Operation("move_to_start", 0, "-", FALSE)
            /\ events' = <<GameTree_board(tree)>>
    /\ before' = IF Running THEN before ELSE tree
    /\ UNCHANGED <<source, sessionVars>>

\* The button ">>" and the loop of move_to_end.
ToEndStep ==
    /\ ~Crashed
    /\ IF Running THEN op.kind = "move_to_end" ELSE ~is_last_board(tree)
    /\ IF node_at(tree, tree.focus).sons # <<>>
       THEN /\ tree' = [tree EXCEPT !.focus = node_at(tree, tree.focus).sons[1][2]]
            /\ op' = Operation("move_to_end", 0, "running", FALSE)
            /\ events' = <<>>
       ELSE /\ tree' = tree
            /\ op' = Operation("move_to_end", 0, "-", FALSE)
            /\ events' = <<GameTree_board(tree)>>
    /\ before' = IF Running THEN before ELSE tree
    /\ UNCHANGED <<source, sessionVars>>

\* "Load game tree" on the text above or on the text of the tree.
LoopsLoad ==
    /\ ~Crashed
    /\ \E text \in {TextParentCycle, GameTree_to_string(tree)} :
          TreeLoaded(text, GameTree_from_string(text))
    /\ before' = tree
    /\ UNCHANGED sessionVars

NextLoops ==
    \/ ~Running /\ TreeNew
    \/ ~Running /\ TreeTryMove
    \/ ~Running /\ TreeMoveToNode
    \/ ~Running /\ TreePromoteVariation
    \/ ~Running /\ TreeDeleteVariation
    \/ ~Running /\ LoopsLoad
    \/ ToStartStep
    \/ ToEndStep

SpecLoops == Init /\ [][NextLoops]_vars

\* A loop that has started goes on: the frame does not end before it does.
LiveLoops ==
    /\ SpecLoops
    /\ WF_vars(Running /\ ToStartStep)
    /\ WF_vars(Running /\ ToEndStep)

----------------------------------------------------------------------------
(* The application: Game.board is the position displayed, the tree has its  *)
(* own positions, and the UpdateBoard events written by one system are read *)
(* by update_board.  In a frame the Update schedule runs end_drag and then  *)
(* update_board, and the interface pass runs the windows and then the       *)
(* handler of the delete events; the events an interface system writes are  *)
(* read by the update_board of the next Update run, after its end_drag.     *)

\* end_drag with a drag in progress, released on a cell: the step is tried
\* on Game.board; when it applies, the new position is announced and the
\* step is given to the tree.  A refused step changes nothing.  It runs at
\* most once before update_board does.
AppEndDrag ==
    /\ ~Crashed
    /\ events = <<>> \/ op.kind # "try_move"
    /\ \E step \in TreeSteps : \E new_board \in {try_move(board, step)} :
          /\ is_some(new_board)
          /\ events' = Append(events, unwrap(new_board))
          /\ TreeTried(step, GameTree_try_move(tree, step))
    /\ before' = tree
    /\ UNCHANGED <<source, sessionVars>>

\* update_board, run when there are events: the board of the last event
\* read becomes Game.board.
AppUpdateBoard ==
    /\ ~Crashed
    /\ events # <<>>
    /\ board' = events[Len(events)]
    /\ events' = <<>>
    /\ op' = Operation("update_board", 0, "-", FALSE)
    /\ UNCHANGED <<prev, last, san, origin, line, k, free, tree, before, source>>

\* The interface pass of a frame comes after its update_board: no event is
\* pending when a window acts.
NextApp ==
    \/ AppEndDrag
    \/ AppUpdateBoard
    \/ events = <<>> /\ TreeNew
    \/ events = <<>> /\ TreeMoveToStart
    \/ events = <<>> /\ TreeMoveBackward
    \/ events = <<>> /\ TreeMoveForward
    \/ events = <<>> /\ TreeMoveToEnd
    \/ events = <<>> /\ TreeMoveToNode
    \/ events = <<>> /\ TreeDeleteVariation
    \/ events = <<>> /\ TreeLoad

SpecApp == Init /\ [][NextApp]_vars

----------------------------------------------------------------------------
(* Vocabulary of the properties. *)

\* Some piece of position b can pseudo-legally move onto sq.
Attacked(b, sq) == \E f \in AllSquares : can_move_pre(b, Step(f, sq))

Moved == is_some(last)

LastStep == unwrap(last)

\* The piece the last move moved, and the side that moved it.
MovedPiece == prev.pieces[LastStep.from[1]][LastStep.from[2]]

Mover == prev.active_color

\* The last move was a castling: the king went two files along its rank.
LastWasCastle ==
    /\ Moved
    /\ MovedPiece.piece_role = "King"
    /\ LastStep.from[2] = LastStep.to[2]
    /\ abs_and_sign(LastStep.to[1] - LastStep.from[1])[1] = 2

FromStart == origin = "start"

----------------------------------------------------------------------------
(* C1 *)

\* The position is one on which the session still tries every step (the
\* moves it accepts are the successors of the position).
StepsTried == free < MaxFree

\* C1: in every position produced by a successful try_move the king of the
\* side that just moved exists and no piece can pseudo-legally move onto its
\* square; and on every position whose steps are tried, each step whose
\* result (before the final test of try_move) leaves the mover's king
\* attacked is answered None.
C1_MoverKingSafe ==
    /\ Moved =>
          LET kp == king_pos(board, Mover)
          IN  is_some(kp) /\ ~Attacked(board, unwrap(kp))
    /\ StepsTried =>
          \A f \in AllSquares : \A t \in AllSquares :
              LET r == try_move_res(board, Step(f, t))
                  kp == king_pos(unwrap(r), board.active_color)
              IN  (is_some(r) /\ is_some(kp) /\ Attacked(unwrap(r), unwrap(kp)))
                      => try_move(board, Step(f, t)) = None

\* A move has been played and the side now to move has a pseudo-legal move
\* that would leave its own king attacked, which try_move refuses.
C1_Witness ==
    /\ Moved
    /\ FromStart
    /\ StepsTried
    /\ \E f \in AllSquares : \E t \in AllSquares :
          LET r == try_move_res(board, Step(f, t))
              kp == king_pos(unwrap(r), board.active_color)
          IN  /\ is_some(r) /\ is_some(kp) /\ Attacked(unwrap(r), unwrap(kp))
              /\ try_move(board, Step(f, t)) = None

----------------------------------------------------------------------------
(* C2 *)

\* C2: for every position reachable from the standard start and every move
\* try_move accepts on it, read_step of the text write_step gives for the
\* move returns that move.
C2_SanRoundTrip ==
    (Moved /\ FromStart) => read_step(prev, unwrap(san)) = Some(LastStep)

----------------------------------------------------------------------------
(* C3 *)

\* C3: read_fen(write_fen(P)) = P, in all six components, for every position
\* P the session holds (all of them have their fields in canonical ranges).
C3_FenRoundTrip == read_fen(write_fen(board)) = board

\* A position with an en-passant target, a castling flag lost and another
\* kept, and Black to move.
C3_Witness ==
    /\ is_some(board.en_passant_target)
    /\ board.active_color = "Black"
    /\ \E n \in 1..4 : board.castling_availability[n]
    /\ \E n \in 1..4 : ~board.castling_availability[n]
    /\ read_fen(write_fen(board)) = board

----------------------------------------------------------------------------
(* C4 *)

\* The flags the claim expects after a non-castling move: the old flags, with
\* both flags of the mover cleared by a king move, and the flag of a rook
\* home square cleared when a rook leaves it or any piece lands on it
\* (h1: white king-side, a1: white queen-side, h8: black king-side,
\* a8: black queen-side).
C4_ExpectedFlags ==
    LET old == prev.castling_availability
        corner(sq) == (MovedPiece.piece_role = "Rook" /\ LastStep.from = sq)
                      \/ LastStep.to = sq
        kingOf(c) == MovedPiece.piece_role = "King" /\ Mover = c
    IN  << old[1] /\ ~kingOf("White") /\ ~corner(<<7, 0>>),
           old[2] /\ ~kingOf("White") /\ ~corner(<<0, 0>>),
           old[3] /\ ~kingOf("Black") /\ ~corner(<<7, 7>>),
           old[4] /\ ~kingOf("Black") /\ ~corner(<<0, 7>>) >>

\* C4: after a successful non-castling move the four castling flags are the
\* old ones with exactly the flags of C4_ExpectedFlags cleared.
C4_CastlingFlags ==
    (Moved /\ ~LastWasCastle) => board.castling_availability = C4_ExpectedFlags

----------------------------------------------------------------------------
(* C5 *)

\* C5: after a successful castling in a position reachable from the standard
\* start, the king stands on the destination, the mover's own rook on the
\* square the king crossed, both origins are empty, the mover's two flags
\* are cleared, the opponent's are unchanged and no other square changed.
C5_CastleResult ==
    (LastWasCastle /\ FromStart) =>
        LET home == LastStep.from[2]
            kingSide == LastStep.to[1] = 6
            rook_from == IF kingSide THEN <<7, home>> ELSE <<0, home>>
            rook_to == IF kingSide THEN <<5, home>> ELSE <<3, home>>
            old == prev.castling_availability
        IN  /\ board.pieces[LastStep.to[1]][home] = Piece("King", Mover)
            /\ board.pieces[rook_to[1]][home] = Piece("Rook", Mover)
            /\ board.pieces[LastStep.from[1]][home] = NoPiece
            /\ board.pieces[rook_from[1]][home] = NoPiece
            /\ board.castling_availability =
                  IF Mover = "White" THEN <<FALSE, FALSE, old[3], old[4]>>
                                     ELSE <<old[1], old[2], FALSE, FALSE>>
            /\ \A sq \in AllSquares \ {LastStep.from, LastStep.to, rook_from, rook_to} :
                  board.pieces[sq[1]][sq[2]] = prev.pieces[sq[1]][sq[2]]

----------------------------------------------------------------------------
(* C6 *)

\* The four castling patterns: the colour, the king's step, the squares
\* strictly between king and rook, the squares the king crosses or lands on.
CastlePatterns ==
    { [color |-> "White", step |-> Step(<<4, 0>>, <<6, 0>>),
       between |-> {<<5, 0>>, <<6, 0>>}, transit |-> {<<5, 0>>, <<6, 0>>}],
      [color |-> "White", step |-> Step(<<4, 0>>, <<2, 0>>),
       between |-> {<<1, 0>>, <<2, 0>>, <<3, 0>>}, transit |-> {<<3, 0>>, <<2, 0>>}],
      [color |-> "Black", step |-> Step(<<4, 7>>, <<6, 7>>),
       between |-> {<<5, 7>>, <<6, 7>>}, transit |-> {<<5, 7>>, <<6, 7>>}],
      [color |-> "Black", step |-> Step(<<4, 7>>, <<2, 7>>),
       between |-> {<<1, 7>>, <<2, 7>>, <<3, 7>>}, transit |-> {<<3, 7>>, <<2, 7>>}] }

KingAtHome(b, p) == b.pieces[p.step.from[1]][p.step.from[2]] = Piece("King", p.color)

KingInCheck(b, p) == Attacked(b, p.step.from)

TransitAttacked(b, p) ==
    \E sq \in p.transit : Attacked(king_placed(b, p.step.from, sq), sq)

BetweenOccupied(b, p) == \E sq \in p.between : piece_is_some(b.pieces[sq[1]][sq[2]])

\* C6: a castling attempt, the king of the pattern's colour going from its
\* e-file home square to the g- or c-file, is answered None whenever the
\* king's square is attacked, a square it crosses or lands on is attacked
\* with the king placed there, or a square between king and rook is
\* occupied, whatever the castling flags.
C6_CastleRefused ==
    \A p \in CastlePatterns :
        (KingAtHome(board, p)
         /\ (KingInCheck(board, p) \/ TransitAttacked(board, p) \/ BetweenOccupied(board, p)))
            => try_move(board, p.step) = None

\* White to move with the king-side flag set, f1 and g1 empty, the king not
\* in check, and a square the king would cross attacked: e1g1 is refused.
C6_Witness ==
    \E p \in CastlePatterns :
        /\ p.step = Step(<<4, 0>>, <<6, 0>>)
        /\ board.active_color = "White"
        /\ board.castling_availability[1]
        /\ KingAtHome(board, p)
        /\ ~KingInCheck(board, p)
        /\ ~BetweenOccupied(board, p)
        /\ TransitAttacked(board, p)
        /\ try_move(board, p.step) = None

----------------------------------------------------------------------------
(* C7 *)

\* The last move was a pawn going diagonally onto the en-passant target
\* recorded in the position before it.
LastWasEnPassant ==
    /\ Moved
    /\ MovedPiece.piece_role = "Pawn"
    /\ LastStep.from[1] # LastStep.to[1]
    /\ prev.en_passant_target = Some(LastStep.to)

\* C7: after an en-passant capture the capturing pawn stands on the target
\* square, which was empty before; the opposing pawn on the target's file
\* and the capturer's origin rank is removed; the origin is empty and no
\* other square changed.
C7_EnPassant ==
    LastWasEnPassant =>
        LET to == LastStep.to
            from == LastStep.from
            victim == <<to[1], from[2]>>
        IN  /\ prev.pieces[to[1]][to[2]] = NoPiece
            /\ prev.pieces[victim[1]][victim[2]] = Piece("Pawn", flip(Mover))
            /\ board.pieces[to[1]][to[2]] = Piece("Pawn", Mover)
            /\ board.pieces[victim[1]][victim[2]] = NoPiece
            /\ board.pieces[from[1]][from[2]] = NoPiece
            /\ \A sq \in AllSquares \ {from, to, victim} :
                  board.pieces[sq[1]][sq[2]] = prev.pieces[sq[1]][sq[2]]

\* White has just captured en passant, and so had Black earlier in the line.
C7_Witness ==
    /\ LastWasEnPassant
    /\ Mover = "White"
    /\ FromStart

----------------------------------------------------------------------------
(* C8 *)

\* The last move was a two-square pawn push.
LastWasDoublePush ==
    /\ Moved
    /\ MovedPiece.piece_role = "Pawn"
    /\ LastStep.from[1] = LastStep.to[1]
    /\ abs_and_sign(LastStep.to[2] - LastStep.from[2])[1] = 2

\* C8: after a successful move the en-passant target is Some(t) exactly when
\* the move was a two-square pawn push, t being the skipped square; after
\* every other move, castling included, it is None.
C8_EnPassantTarget ==
    Moved =>
        board.en_passant_target =
            IF LastWasDoublePush
            THEN Some(<<LastStep.from[1], (LastStep.from[2] + LastStep.to[2]) \div 2>>)
            ELSE None

\* The ply right after a double push: the target was set and is none again.
C8_Witness ==
    /\ Moved
    /\ is_some(prev.en_passant_target)
    /\ ~LastWasDoublePush
    /\ board.en_passant_target = None

----------------------------------------------------------------------------
(* C9 *)

StalematePosition == read_fen(FenStalemate)

HasMove(b) == \E f \in AllSquares : \E t \in AllSquares : is_some(try_move(b, Step(f, t)))

\* C9: end_game is None iff some step is accepted by try_move; otherwise it is
\* Winner(opponent) when the king of the side to move is attacked and Draw
\* when it is not attacked or absent.  The loaded stalemate position is a
\* Draw.
C9_EndGame ==
    LET kp == king_pos(board, board.active_color)
        e == end_game(board)
    IN  /\ (e = None) <=> HasMove(board)
        /\ ~HasMove(board) =>
              e = IF is_some(kp) /\ Attacked(board, unwrap(kp))
                  THEN Some(Winner(flip(board.active_color)))
                  ELSE Some(Draw)
        /\ board = StalematePosition => e = Some(Draw)

\* The stalemate position 7k/5Q2/6K1/8/8/8/8/8 b - - 0 1 has been loaded.
C9_Witness ==
    /\ origin = "fen"
    /\ board = StalematePosition
    /\ ~HasMove(board)
    /\ end_game(board) = Some(Draw)

----------------------------------------------------------------------------
(* C10 *)

OnFoolsMate == FromStart /\ free = 0 /\ (line = 0 \/ Lines[line] = LineFoolsMate)

\* C10: from the standard start each of f2f3, e7e5, g2g4, d8h4 is accepted in
\* turn; after the last, end_game is Winner(Black) and the text write_step
\* gave for d8h4 on the position before it ends in "#".
C10_FoolsMate ==
    /\ (OnFoolsMate /\ k < Len(LineFoolsMate))
          => is_some(try_move(board, LineFoolsMate[k + 1]))
    /\ (OnFoolsMate /\ k = Len(LineFoolsMate))
          => /\ end_game(board) = Some(Winner("Black"))
             /\ is_some(san)
             /\ unwrap(san)[Len(unwrap(san))] = "#"

\* The four moves have been played.
C10_Witness ==
    /\ OnFoolsMate
    /\ k = Len(LineFoolsMate)
    /\ last = Some(Step(<<3, 7>>, <<7, 3>>))

----------------------------------------------------------------------------
(* C11 *)

\* The other squares holding a piece identical to the moved one from which
\* the destination of the last move can legally be reached.
Rivals ==
    { f \in AllSquares :
        /\ f # LastStep.from
        /\ prev.pieces[f[1]][f[2]] = MovedPiece
        /\ is_some(try_move(prev, Step(f, LastStep.to))) }

LastWasCapture ==
    \/ piece_is_some(prev.pieces[LastStep.to[1]][LastStep.to[2]])
    \/ /\ MovedPiece.piece_role = "Pawn"
       /\ prev.en_passant_target = Some(LastStep.to)

FileText(sq) == <<Chr(Ord("a") + sq[1])>>

RankText(sq) == <<Chr(Ord("1") + sq[2])>>

ExpectedToken ==
    IF Rivals = {}
    THEN IF MovedPiece.piece_role = "Pawn" /\ LastWasCapture
         THEN FileText(LastStep.from) ELSE <<>>
    ELSE IF \A r \in Rivals : r[1] # LastStep.from[1] THEN FileText(LastStep.from)
    ELSE IF \A r \in Rivals : r[2] # LastStep.from[2] THEN RankText(LastStep.from)
    ELSE FileText(LastStep.from) \o RankText(LastStep.from)

\* The text of the last move up to its destination.
ExpectedHead ==
    piece_name(MovedPiece.piece_role) \o ExpectedToken
        \o (IF LastWasCapture THEN <<"x">> ELSE <<>>)
        \o FileText(LastStep.to) \o RankText(LastStep.to)

\* C11: the text write_step gives for a move that is not a castling carries,
\* between the piece letter and the destination, the origin file when no
\* rival shares it, else the origin rank when no rival shares it, else file
\* and rank, and nothing when there is no rival except the origin file for a
\* capturing pawn; and no other legal move of the same position receives
\* the same text.
C11_Disambiguation ==
    Moved =>
        /\ is_some(san)
        /\ ~LastWasCastle => starts_with(unwrap(san), ExpectedHead)
        /\ \A f \in AllSquares : \A t \in AllSquares :
              (Step(f, t) # LastStep /\ is_some(try_move(prev, Step(f, t))))
                  => write_step(prev, Step(f, t)) # san

\* The queen on a1 went to b2, which the queen on a3 (same file) and the
\* queen on c1 (same rank) reach too: the text carries file and rank.
C11_Witness ==
    /\ Moved
    /\ \E r \in Rivals : r[1] = LastStep.from[1]
    /\ \E r \in Rivals : r[2] = LastStep.from[2]
    /\ starts_with(unwrap(san), <<"Q", "a", "1", "b", "2">>)

----------------------------------------------------------------------------
(* Vocabulary of the tree properties. *)

\* The tree comes from GameTree::new and the operations, not from a text.
TreeBuilt == source = "new"

Sons(t, i) == node_at(t, i).sons

Parent(t, i) == unwrap(node_at(t, i).parent)

\* Following the parent links from i reaches the root within fuel links.
RECURSIVE ClimbsToRoot(_, _, _)
ClimbsToRoot(t, i, fuel) ==
    \/ i = t.root
    \/ /\ fuel > 0
       /\ is_some(node_at(t, i).parent)
       /\ Parent(t, i) \in Indices(t)
       /\ ClimbsToRoot(t, Parent(t, i), fuel - 1)

WellFormed(t) ==
    /\ t.nodes # <<>>
    /\ t.root = 0
    /\ node_at(t, 0).parent = None
    /\ t.focus \in Indices(t)
    /\ \A i \in Indices(t) : \A n \in 1..Len(Sons(t, i)) :
          Sons(t, i)[n][2] \in Indices(t) \ {0}
    /\ \A i \in Indices(t) \ {0} :
          /\ is_some(node_at(t, i).parent)
          /\ Parent(t, i) \in Indices(t)
          /\ Cardinality({ n \in 1..Len(Sons(t, Parent(t, i))) :
                             Sons(t, Parent(t, i))[n][2] = i }) = 1
          /\ \A q \in Indices(t) \ {Parent(t, i)} :
                \A n \in 1..Len(Sons(t, q)) : Sons(t, q)[n][2] # i
          /\ ClimbsToRoot(t, i, Len(t.nodes))

\* The step recorded on the edge that leads into the node i.
StepInto(t, i) ==
    LET sons == Sons(t, Parent(t, i))
    IN  sons[CHOOSE n \in 1..Len(sons) : sons[n][2] = i][1]

\* The steps from the root down to the node i: what the node stands for,
\* whatever its index.
RECURSIVE PathTo(_, _)
PathTo(t, i) ==
    IF i = t.root THEN <<>> ELSE Append(PathTo(t, Parent(t, i)), StepInto(t, i))

\* The node i is d or a descendant of d.
RECURSIVE InSubtree(_, _, _)
InSubtree(t, i, d) ==
    \/ i = d
    \/ i # t.root /\ InSubtree(t, Parent(t, i), d)

Subtree(t, d) == { i \in Indices(t) : InSubtree(t, i, d) }

\* The node j of tree u is the node i of tree t.
SameNode(u, j, t, i) ==
    /\ PathTo(u, j) = PathTo(t, i)
    /\ node_at(u, j).board = node_at(t, i).board

HasSonFor(t, step) ==
    \E n \in 1..Len(Sons(t, t.focus)) : Sons(t, t.focus)[n][1] = step

TriedMove == op.kind = "try_move"

DeletedNonRoot == op.kind = "delete_variation" /\ op.arg # before.root

----------------------------------------------------------------------------
(* C12 *)

\* C12: a tree built by GameTree::new, try_move, navigation, promotion, set
\* as mainline and deletion is a rooted tree: the root is 0 and has no
\* parent, every other node has a valid parent whose sons point to it
\* exactly once while no other node's sons do, its parent links reach the
\* root, and the focus is a valid index.
C12_RootedTree == TreeBuilt => WellFormed(tree)

\* A deletion has renumbered the arena: the node that was at index 2 is now
\* at index 1.
C12_Witness ==
    /\ TreeBuilt
    /\ DeletedNonRoot
    /\ op.arg = 1
    /\ Len(before.nodes) = 3
    /\ Len(tree.nodes) = 2
    /\ WellFormed(before)
    /\ SameNode(tree, 1, before, 2)

----------------------------------------------------------------------------
(* C13 *)

\* C13: GameTree::try_move returns false exactly when the focus has no son
\* for the step and try_move rejects the step on the focus position; the
\* tree (nodes, positions, parents, sons, root, focus) is then unchanged.
C13_RejectedMove ==
    TriedMove =>
        /\ (op.ret = "false") <=>
              (~HasSonFor(before, op.arg)
               /\ try_move(GameTree_board(before), op.arg) = None)
        /\ op.ret = "false" => tree = before

\* A step was rejected on a tree of several nodes with the focus off the
\* root.
C13_Witness ==
    /\ TriedMove
    /\ op.ret = "false"
    /\ Len(before.nodes) > 1
    /\ before.focus # before.root
    /\ tree = before

----------------------------------------------------------------------------
(* C14 *)

NoTwinSons(t) ==
    \A i \in Indices(t) : \A n \in 1..Len(Sons(t, i)) : \A m \in 1..Len(Sons(t, i)) :
        n # m => Sons(t, i)[n][1] # Sons(t, i)[m][1]

\* C14: when the focus has a son for the step, GameTree::try_move returns
\* true, focuses that son and leaves nodes and edges as they are; so no
\* node of a built tree has two sons for the same step.
C14_ChildReuse ==
    /\ (TriedMove /\ HasSonFor(before, op.arg)) =>
          /\ op.ret = "true"
          /\ tree.nodes = before.nodes
          /\ tree.root = before.root
          /\ \E n \in 1..Len(Sons(before, before.focus)) :
                /\ Sons(before, before.focus)[n][1] = op.arg
                /\ tree.focus = Sons(before, before.focus)[n][2]
    /\ TreeBuilt => NoTwinSons(tree)

\* A move already recorded was played again from its parent: the focus is
\* on the node recorded before.
C14_Witness ==
    /\ TreeBuilt
    /\ TriedMove
    /\ HasSonFor(before, op.arg)
    /\ tree.nodes = before.nodes
    /\ tree.focus # before.focus
    /\ Parent(tree, tree.focus) = before.focus

----------------------------------------------------------------------------
(* C15 *)

EdgeSound(t, i, e) ==
    LET b == node_at(t, i).board
    IN  /\ try_move(b, e[1]) = Some(node_at(t, e[2]).board)
        /\ write_step(b, e[1]) = Some(e[3].san)
        /\ e[3].color = b.active_color
        /\ e[3].ply = b.fullmove

\* C15: on every edge of a built tree the son's position is try_move of the
\* node's position, the label's text is write_step on that position, its
\* colour the side to move and its ply the fullmove counter there; and a
\* newly recorded move is the last son of the old focus, the earlier sons
\* in place, with the focus on the new node.
C15_EdgeLabels ==
    /\ TreeBuilt =>
          \A i \in Indices(tree) : \A n \in 1..Len(Sons(tree, i)) :
              EdgeSound(tree, i, Sons(tree, i)[n])
    /\ (TriedMove /\ Len(tree.nodes) # Len(before.nodes)) =>
          LET old == Sons(before, before.focus)
              new == Sons(tree, before.focus)
          IN  /\ Len(tree.nodes) = Len(before.nodes) + 1
              /\ Len(new) = Len(old) + 1
              /\ SubSeq(new, 1, Len(old)) = old
              /\ new[Len(new)][1] = op.arg
              /\ new[Len(new)][2] = Len(before.nodes)
              /\ tree.focus = Len(before.nodes)

\* A move was recorded on a node that already had a son: it is the second
\* son and the focus is on its node.
C15_Witness ==
    /\ TreeBuilt
    /\ TriedMove
    /\ Len(Sons(before, before.focus)) = 1
    /\ Len(tree.nodes) = Len(before.nodes) + 1
    /\ Len(Sons(tree, before.focus)) = 2
    /\ tree.focus = Len(before.nodes)

----------------------------------------------------------------------------
(* C16 *)

\* C16: deleting a node other than the root of a well-formed tree lowers the
\* node count by the size of its subtree; every node outside the subtree is
\* in the new arena exactly once; and the node's former parent has no son
\* for the step that led to it.
C16_DeleteSubtree ==
    (DeletedNonRoot /\ WellFormed(before)) =>
        LET gone == Subtree(before, op.arg)
        IN  /\ Len(tree.nodes) = Len(before.nodes) - Cardinality(gone)
            /\ \A i \in Indices(before) \ gone :
                  Cardinality({ j \in Indices(tree) : SameNode(tree, j, before, i) }) = 1
            /\ \A j \in Indices(tree) :
                  SameNode(tree, j, before, Parent(before, op.arg))
                      => \A n \in 1..Len(Sons(tree, j)) :
                            Sons(tree, j)[n][1] # StepInto(before, op.arg)

\* A node with a son was deleted: two nodes went, one stayed.
C16_Witness ==
    /\ DeletedNonRoot
    /\ WellFormed(before)
    /\ Cardinality(Subtree(before, op.arg)) = 2
    /\ Len(before.nodes) = 3
    /\ Len(tree.nodes) = 1

----------------------------------------------------------------------------
(* C17 *)

\* C17: after the deletion of a node other than the root, a focus that was
\* in the deleted subtree is on the root and one UpdateBoard event carrying
\* the root position was written; any other focus is on the same node as
\* before and no event was written.
C17_FocusAfterDelete ==
    (DeletedNonRoot /\ WellFormed(before)) =>
        IF before.focus \in Subtree(before, op.arg)
        THEN /\ tree.focus = 0
             /\ events = <<node_at(before, before.root).board>>
        ELSE /\ SameNode(tree, tree.focus, before, before.focus)
             /\ events = <<>>

\* The focus was outside the deleted subtree and its index changed.
C17_Witness ==
    /\ DeletedNonRoot
    /\ WellFormed(before)
    /\ before.focus \notin Subtree(before, op.arg)
    /\ tree.focus # before.focus
    /\ events = <<>>

\* The focus was inside the deleted subtree, below the deleted node.
C17_WitnessInside ==
    /\ DeletedNonRoot
    /\ WellFormed(before)
    /\ before.focus \in Subtree(before, op.arg) \ {op.arg}
    /\ tree.focus = 0
    /\ Len(events) = 1

----------------------------------------------------------------------------
(* C18 *)

\* C18: a deletion aimed at the root changes nothing (nodes, links, root,
\* focus) and writes no UpdateBoard event.
C18_RootDeleteRefused ==
    (op.kind = "delete_variation" /\ op.arg = before.root) =>
        /\ tree = before
        /\ events = <<>>

\* The root of a tree of several nodes, focus off the root, was aimed at.
C18_Witness ==
    /\ op.kind = "delete_variation"
    /\ op.arg = before.root
    /\ Len(before.nodes) > 1
    /\ before.focus # before.root
    /\ tree = before

----------------------------------------------------------------------------
(* C19 *)

\* The entries (move, child index, SAN) of a list of sons.
SonEntries(sons) == [n \in 1..Len(sons) |-> <<sons[n][1], sons[n][2], sons[n][3].san>>]

SameArena(a, b) ==
    /\ Len(a.nodes) = Len(b.nodes)
    /\ \A n \in 1..Len(a.nodes) :
          /\ a.nodes[n].board = b.nodes[n].board
          /\ a.nodes[n].parent = b.nodes[n].parent
          /\ SonEntries(a.nodes[n].sons) = SonEntries(b.nodes[n].sons)

\* The arena from_string reads in the text to_string gives for the tree.
ReadBack(t) == GameTree_from_string(GameTree_to_string(t))

\* C19: for every tree built from GameTree::new(standard start) by the
\* operations, from_string of its to_string is Some tree with the same node
\* count and, at every index, the same position, parent and ordered
\* (move, child index, SAN) sons.
C19_TextRoundTrip ==
    (TreeBuilt /\ node_at(tree, tree.root).board = Board_default) =>
        /\ ReadBack(tree).kind = "Some"
        /\ SameArena(ReadBack(tree).tree, tree)

----------------------------------------------------------------------------
(* C20 *)

\* C20: from_string answers None, and does not panic, on a text whose
\* node-count line is not a number, whose node line has an entry not of the
\* form (childIndex, SAN), whose child index is not below the node count,
\* or whose SAN is no move of the position of its node.
C20_MalformedRefused ==
    (op.kind = "load" /\ op.arg \in TreeTexts) =>
        /\ op.ret = "None"
        /\ ~op.panic

----------------------------------------------------------------------------
(* C21 *)

LoadedSome == op.kind = "load" /\ op.ret = "Some"

\* The position of every son is the result of its recorded step on the
\* position of its parent.
PositionsFollow(t) ==
    \A i \in Indices(t) : \A n \in 1..Len(Sons(t, i)) :
        try_move(node_at(t, i).board, Sons(t, i)[n][1])
            = Some(node_at(t, Sons(t, i)[n][2]).board)

\* C21: a tree from_string returns as Some is a well-formed rooted tree (at
\* least one node, node 0 without parent, every other node named exactly
\* once by the sons of its one parent, no cycle of parent links) and the
\* position of each node other than the root is its recorded step applied
\* to the position of its parent.
C21_LoadedTreeSound ==
    LoadedSome => (WellFormed(tree) /\ PositionsFollow(tree))

----------------------------------------------------------------------------
(* C22 *)

FenWasRead == op.kind = "read_fen"

\* The value of the n-th field of the text that was read.
FieldValue(n) == IF n <= Len(op.arg) THEN op.arg[n].value ELSE FieldDefaults[n]

\* C22: read_fen gives a position for every text and does not fail; each
\* field of the position is the value of its field of the text, or, for a
\* field that is missing or denotes nothing, its default (empty board,
\* White, all four flags, no en-passant target, halfmove 0, fullmove 1),
\* whatever the other fields are.
C22_FenDefaults ==
    FenWasRead =>
        /\ ~op.panic
        /\ board.pieces = FieldValue(1)
        /\ board.active_color = FieldValue(2)
        /\ board.castling_availability = FieldValue(3)
        /\ board.en_passant_target = FieldValue(4)
        /\ board.halfmove = FieldValue(5)
        /\ board.fullmove = FieldValue(6)

----------------------------------------------------------------------------
(* C23 *)

SameArenaAs(t, u) == t.nodes = u.nodes /\ t.root = u.root

Navigated ==
    op.kind \in {"move_to_start", "move_backward", "move_forward", "move_to_end"}

\* C23: the four navigation operations leave the arena as it is; backward
\* and to-start at the root, forward and to-end at a node without sons
\* leave the focus too; elsewhere backward puts the focus on the parent and
\* forward on the first son.
C23_Navigation ==
    /\ Navigated => SameArenaAs(tree, before)
    /\ op.kind = "move_backward" =>
          tree.focus = IF before.focus = before.root THEN before.focus
                       ELSE Parent(before, before.focus)
    /\ op.kind = "move_forward" =>
          tree.focus = IF Sons(before, before.focus) = <<>> THEN before.focus
                       ELSE Sons(before, before.focus)[1][2]
    /\ (TreeBuilt /\ tree.focus = tree.root) =>
          /\ move_backward(tree) = tree
          /\ move_to_start(tree) = tree
    /\ (TreeBuilt /\ Sons(tree, tree.focus) = <<>>) =>
          /\ move_forward(tree) = tree
          /\ move_to_end(tree) = tree
    /\ TreeBuilt =>
          /\ SameArenaAs(move_backward(tree), tree)
          /\ SameArenaAs(move_to_start(tree), tree)
          /\ SameArenaAs(move_forward(tree), tree)
          /\ SameArenaAs(move_to_end(tree), tree)

\* Forward was pressed on a node with two sons: the focus is on the first
\* of them, which has no son, so that forward and to-end now do nothing.
C23_Witness ==
    /\ TreeBuilt
    /\ op.kind = "move_forward"
    /\ Len(Sons(before, before.focus)) = 2
    /\ tree.focus = Sons(before, before.focus)[1][2]
    /\ tree.focus # Sons(before, before.focus)[2][2]
    /\ Sons(tree, tree.focus) = <<>>
    /\ tree.nodes = before.nodes

----------------------------------------------------------------------------
(* C24 *)

\* The nodes on the way from the root to the node n, both included.
OnPath(t, n) == { j \in Indices(t) : InSubtree(t, n, j) }

SonSet(t, i) == { Sons(t, i)[m] : m \in 1..Len(Sons(t, i)) }

\* The same nodes with the same positions, parents and sets of sons, the
\* same root and the same focus.
SameButOrder(t, u) ==
    /\ Len(t.nodes) = Len(u.nodes)
    /\ t.root = u.root
    /\ t.focus = u.focus
    /\ \A i \in Indices(t) :
          /\ node_at(t, i).board = node_at(u, i).board
          /\ node_at(t, i).parent = node_at(u, i).parent
          /\ Len(Sons(t, i)) = Len(Sons(u, i))
          /\ SonSet(t, i) = SonSet(u, i)

RECURSIVE ForwardTimes(_, _)
ForwardTimes(t, times) ==
    IF times = 0 THEN t ELSE ForwardTimes(move_forward(t), times - 1)

SetAsMainline == op.kind = "set_as_mainline"

\* C24: after "Set as mainline" on a node every node on the way from the
\* root to it is the first son of its parent, so that to-start followed by
\* as many forwards as the node is deep ends on it; the nodes, the set of
\* sons of each, the positions and the focus are as before.
C24_SetAsMainline ==
    (SetAsMainline /\ WellFormed(before)) =>
        /\ SameButOrder(tree, before)
        /\ \A j \in OnPath(tree, op.arg) \ {tree.root} :
              Sons(tree, Parent(tree, j))[1][2] = j
        /\ ForwardTimes(move_to_start(tree), Len(PathTo(tree, op.arg))).focus = op.arg

\* The node was the second son of a second son: two lists of sons changed.
C24_Witness ==
    /\ SetAsMainline
    /\ WellFormed(before)
    /\ Len(PathTo(before, op.arg)) = 2
    /\ Sons(before, Parent(before, op.arg))[1][2] # op.arg
    /\ Sons(before, before.root)[1][2] # Parent(before, op.arg)
    /\ Sons(tree, tree.root)[1][2] = Parent(before, op.arg)
    /\ Sons(tree, Parent(tree, op.arg))[1][2] = op.arg

----------------------------------------------------------------------------
(* C25 *)

\* The place (from 1) of the node among the sons of its parent.
PlaceOf(t, n) ==
    CHOOSE m \in 1..Len(Sons(t, Parent(t, n))) : Sons(t, Parent(t, n))[m][2] = n

Promoted == op.kind = "promote_variation"

\* C25: after "Promote Variation" on a node at index k of its parent's sons
\* the node is at index 0, the former first son at index k and every other
\* son where it was; nothing else changes; promoting the root or a first
\* son changes nothing.
C25_PromoteVariation ==
    /\ (Promoted /\ WellFormed(before)) =>
          LET n == op.arg
              p == Parent(before, n)
              place == PlaceOf(before, n)
          IN  /\ Sons(tree, p)[1] = Sons(before, p)[place]
              /\ Sons(tree, p)[place] = Sons(before, p)[1]
              /\ Len(Sons(tree, p)) = Len(Sons(before, p))
              /\ \A m \in 1..Len(Sons(before, p)) :
                    m \notin {1, place} => Sons(tree, p)[m] = Sons(before, p)[m]
              /\ \A i \in Indices(before) \ {p} : Sons(tree, i) = Sons(before, i)
              /\ SameButOrder(tree, before)
              /\ place = 1 => tree = before
    /\ (TreeBuilt /\ WellFormed(tree)) => promote_variation(tree, tree.root) = tree

\* The third of three sons was promoted: it changed places with the first
\* and the second stayed.
C25_Witness ==
    /\ Promoted
    /\ WellFormed(before)
    /\ Len(Sons(before, Parent(before, op.arg))) = 3
    /\ PlaceOf(before, op.arg) = 3
    /\ PlaceOf(tree, op.arg) = 1
    /\ Sons(tree, Parent(before, op.arg))[2] = Sons(before, Parent(before, op.arg))[2]

----------------------------------------------------------------------------
(* C26 *)

\* The moves played when the tokens are taken from left to right on the
\* position b, a token that names no move of the position being passed over.
RECURSIVE PlayedMoves(_, _)
RECURSIVE PlayedNext(_, _, _)
RECURSIVE PlayedTaken(_, _, _)
PlayedMoves(b, tokens) ==
    IF tokens = <<>> THEN <<>>
    ELSE PlayedNext(b, Tail(tokens),
                    { s \in { Step(f, t) : f \in AllSquares, t \in AllSquares } :
                         write_step(b, s) = Some(Head(tokens)) })

\* hits: the moves of the position b the token names.
PlayedNext(b, rest, hits) ==
    IF hits = {} THEN PlayedMoves(b, rest)
    ELSE PlayedTaken(b, rest, CHOOSE s \in hits : TRUE)

PlayedTaken(b, rest, s) == <<s>> \o PlayedMoves(unwrap(try_move(b, s)), rest)

PgnWasLoaded == op.kind = "from_pgn"

\* C26: from_pgn takes the tokens from left to right from the standard
\* start, passes over a token that does not decode or apply on the current
\* position and goes on with the next on the same position; the tree is one
\* line of as many moves as tokens decoded and applied, the focus on its
\* last node.
C26_FromPgn ==
    PgnWasLoaded =>
        /\ WellFormed(tree)
        /\ node_at(tree, tree.root).board = Board_default
        /\ \A i \in Indices(tree) : Len(Sons(tree, i)) <= 1
        /\ Sons(tree, tree.focus) = <<>>
        /\ PathTo(tree, tree.focus) = PlayedMoves(Board_default, op.arg)
        /\ Len(tree.nodes) = Len(PlayedMoves(Board_default, op.arg)) + 1

\* e4, then e4 again (no move for Black), then e5: two moves were played.
C26_Witness ==
    /\ PgnWasLoaded
    /\ op.arg = << <<"e", "4">>, <<"e", "4">>, <<"e", "5">> >>
    /\ Len(tree.nodes) = 3
    /\ tree.focus = 2

----------------------------------------------------------------------------
(* C27 *)

\* C27: every successful try_move flips the side to move and adds exactly
\* one to halfmove, pawn moves and captures included; fullmove grows by
\* exactly one when Black made the move and stays when White made it.
C27_Counters ==
    Moved =>
        /\ board.active_color = flip(prev.active_color)
        /\ board.halfmove = prev.halfmove + 1
        /\ board.fullmove = IF Mover = "Black" THEN prev.fullmove + 1 ELSE prev.fullmove

\* A pawn captured when moves had been counted already.
C27_Witness ==
    /\ Moved
    /\ MovedPiece.piece_role = "Pawn"
    /\ LastWasCapture
    /\ prev.halfmove > 0
    /\ board.halfmove = prev.halfmove + 1

----------------------------------------------------------------------------
(* C28 *)

\* C28: on a successful move fullmove is incremented when White just moved.
C28_WhiteIncrements ==
    (Moved /\ Mover = "White") => board.fullmove = prev.fullmove + 1

\* C28 as amended: on a successful move fullmove is incremented exactly when
\* Black just moved.
C28_BlackIncrements ==
    Moved => ((board.fullmove # prev.fullmove) <=> (Mover = "Black"))

\* Black castled and the fullmove count went up.
C28_Witness ==
    /\ LastWasCastle
    /\ Mover = "Black"
    /\ board.fullmove = prev.fullmove + 1

----------------------------------------------------------------------------
(* C29 *)

LastWasPromotion ==
    /\ Moved
    /\ MovedPiece.piece_role = "Pawn"
    /\ LastStep.to[2] \in {0, 7}

\* The "=" of the text is followed by "Q".
SaysQueen(text) ==
    \E n \in 1..(Len(text) - 1) : text[n] = "=" /\ text[n + 1] = "Q"

\* The text with the letter after "=" replaced by the letter r.
Asking(text, r) ==
    [n \in 1..Len(text) |-> IF n > 1 /\ text[n - 1] = "=" THEN r ELSE text[n]]

NoPawnOnEndRanks(b) ==
    \A x \in RangeI : \A y \in {0, 7} : b.pieces[x][y].piece_role # "Pawn"

\* C29: a pawn that moves onto rank 0 or 7 is replaced there by a queen of
\* its colour and write_step says "=Q"; so no position reached from the
\* standard start has a pawn on rank 0 or 7, and the text of the move with
\* R, B or N in place of Q decodes to no move.
C29_QueenPromotion ==
    /\ LastWasPromotion =>
          /\ board.pieces[LastStep.to[1]][LastStep.to[2]] = Piece("Queen", Mover)
          /\ is_some(san)
          /\ SaysQueen(unwrap(san))
          /\ \A r \in {"R", "B", "N"} : read_step(prev, Asking(unwrap(san), r)) = None
    /\ FromStart => NoPawnOnEndRanks(board)

\* A black pawn reached rank 0 and the text of its move decodes to it.
C29_Witness ==
    /\ LastWasPromotion
    /\ Mover = "Black"
    /\ LastStep.to[2] = 0
    /\ read_step(prev, unwrap(san)) = Some(LastStep)

----------------------------------------------------------------------------
(* C30 *)

\* The side to move of the position has its king attacked.
InCheck(b) ==
    /\ is_some(king_pos(b, b.active_color))
    /\ Attacked(b, unwrap(king_pos(b, b.active_color)))

Suffix(text) ==
    IF text[Len(text)] \in {"#", "+"} THEN text[Len(text)] ELSE "none"

\* C30: the text of a legal move, castling included, ends in "#" iff the
\* side to move after it is in check and has no legal move, in "+" iff it
\* is in check and has one, and has no such suffix otherwise, also when the
\* move stalemates.
C30_CheckSuffix ==
    (Moved /\ is_some(san)) =>
        Suffix(unwrap(san)) =
            IF InCheck(board) /\ ~HasMove(board) THEN "#"
            ELSE IF InCheck(board) THEN "+"
            ELSE "none"

\* A castling gave check.
C30_Witness ==
    /\ LastWasCastle
    /\ is_some(san)
    /\ Suffix(unwrap(san)) = "+"
    /\ InCheck(board)
    /\ HasMove(board)

----------------------------------------------------------------------------
(* C31 *)

\* C31: on every position and for every step, write_step returns Some text
\* exactly when try_move returns Some position, and it reaches none of its
\* unreachable!() arms; so unwrapping write_step after a successful try_move
\* on the same position and step cannot fail.
C31_WriteStepTotal ==
    \A f \in AllSquares : \A t \in AllSquares :
        /\ is_some(write_step(board, Step(f, t))) <=> is_some(try_move(board, Step(f, t)))
        /\ ~write_step_panics(board, Step(f, t))

\* A castling was written, and on the position it led to some steps are
\* legal and written and the others refused.
C31_Witness ==
    /\ LastWasCastle
    /\ is_some(san)
    /\ \E f \in AllSquares : \E t \in AllSquares : is_some(write_step(board, Step(f, t)))
    /\ \E f \in AllSquares : \E t \in AllSquares : write_step(board, Step(f, t)) = None

----------------------------------------------------------------------------
(* C32 *)

\* The king move of the canonical castling pattern of a colour and a side.
CanonicalCastle(color, long) ==
    Step(<<4, IF color = "White" THEN 0 ELSE 7>>,
         <<IF long THEN 2 ELSE 6, IF color = "White" THEN 0 ELSE 7>>)

CastleTexts(long) ==
    { castle_text(Step(<<4, 0>>, <<IF long THEN 2 ELSE 6, 0>>)) \o suffix :
        suffix \in { <<>>, <<"+">>, <<"#">> } }

\* C32: on every position, for "O-O" and "O-O-O" with each check suffix,
\* read_step returns the king move of the canonical pattern of the side to
\* move (e1-g1, e8-g8, e1-c1, e8-c8) when that castling is legal and is
\* written with exactly this text, and None otherwise (flag unset, castling
\* not legal, or another suffix).
C32_CastleDecode ==
    \A long \in BOOLEAN : \A text \in CastleTexts(long) :
        read_step(board, text) =
            IF write_step(board, CanonicalCastle(board.active_color, long)) = Some(text)
            THEN Some(CanonicalCastle(board.active_color, long))
            ELSE None

----------------------------------------------------------------------------
(* C33 *)

\* C33: on every tree the program holds, a started move_to_start ends with
\* the focus on the root, and a started move_to_end ends with the focus on
\* a node without sons.
C33_LoopsTerminate ==
    /\ (Running /\ op.kind = "move_to_start")
           ~> (~Running /\ op.kind = "move_to_start" /\ tree.focus = tree.root)
    /\ (Running /\ op.kind = "move_to_end")
           ~> (~Running /\ op.kind = "move_to_end" /\ is_last_board(tree))

----------------------------------------------------------------------------
(* C34 *)

\* The step passes the three tests try_move makes before it applies a move:
\* a piece of the side to move on the origin, no piece of that side on the
\* destination, and the pseudo-legal movement test.
PassesPreTests(b, step) ==
    /\ piece_is_some(b.pieces[step.from[1]][step.from[2]])
    /\ b.pieces[step.from[1]][step.from[2]].piece_color = b.active_color
    /\ ~(/\ piece_is_some(b.pieces[step.to[1]][step.to[2]])
         /\ b.pieces[step.to[1]][step.to[2]].piece_color = b.active_color)
    /\ can_move_pre(b, step)

\* C34: in a position whose side to move has no king, king_safe holds for
\* that colour and try_move accepts every step that passes the ownership,
\* friendly-destination and pseudo-legal movement tests.
C34_KinglessMoves ==
    king_pos(board, board.active_color) = None =>
        /\ king_safe(board, board.active_color)
        /\ \A f \in AllSquares : \A t \in AllSquares :
              PassesPreTests(board, Step(f, t)) => is_some(try_move(board, Step(f, t)))

----------------------------------------------------------------------------
(* C35 *)

\* The n-th token of the list does not decode on the position from_pgn has
\* reached when it comes to it.
Undecodable(tokens, n) ==
    read_step(GameTree_board(GameTree_from_pgn(SubSeq(tokens, 1, n - 1))), tokens[n]) = None

\* The list without its n-th token.
Without(tokens, n) == SubSeq(tokens, 1, n - 1) \o SubSeq(tokens, n + 1, Len(tokens))

\* C35 as stated: the tree built from a move list is the tree of the tokens
\* before the first token that does not decode; no later token is applied.
C35_StopsAtFirst ==
    PgnWasLoaded =>
        \A n \in 1..Len(op.arg) :
            (Undecodable(op.arg, n) /\ \A m \in 1..(n - 1) : ~Undecodable(op.arg, m))
                => tree = GameTree_from_pgn(SubSeq(op.arg, 1, n - 1))

\* C35, amended: a token that does not decode is passed over and the tokens
\* after it are still applied; the tree built from the list is the tree
\* built from the list without that token.
C35_SkipsUndecodable ==
    PgnWasLoaded =>
        \A n \in 1..Len(op.arg) :
            Undecodable(op.arg, n) => tree = GameTree_from_pgn(Without(op.arg, n))

\* e4, a token that is no move, e5: both moves are in the tree.
C35_Witness ==
    /\ PgnWasLoaded
    /\ op.arg = << <<"e", "4">>, <<"Z", "z", "9">>, <<"e", "5">> >>
    /\ Undecodable(op.arg, 2)
    /\ Len(tree.nodes) = 3
    /\ tree.focus = 2

----------------------------------------------------------------------------
(* C36 *)

\* The king's square and the rook's corner of each castling flag, in the
\* order of the flags: white king-side, white queen-side, black king-side,
\* black queen-side.
CastleHomes ==
    << [color |-> "White", king |-> <<4, 0>>, rook |-> <<7, 0>>],
       [color |-> "White", king |-> <<4, 0>>, rook |-> <<0, 0>>],
       [color |-> "Black", king |-> <<4, 7>>, rook |-> <<7, 7>>],
       [color |-> "Black", king |-> <<4, 7>>, rook |-> <<0, 7>>] >>

\* C36: in every position reached from the standard start, a castling flag
\* that is set has the king of its colour on e1 / e8 and a rook of that
\* colour on the corner of its side.
C36_FlagsHaveKingAndRook ==
    FromStart =>
        \A n \in 1..4 :
            board.castling_availability[n] =>
                /\ board.pieces[CastleHomes[n].king[1]][CastleHomes[n].king[2]]
                      = Piece("King", CastleHomes[n].color)
                /\ board.pieces[CastleHomes[n].rook[1]][CastleHomes[n].rook[2]]
                      = Piece("Rook", CastleHomes[n].color)

----------------------------------------------------------------------------
(* C37 *)

\* C37: in every tree built from GameTree::new by try_move, promotion,
\* set-as-mainline and handle_delete_variation, every node but the root has
\* a parent whose index is strictly smaller than its own, and every son is
\* listed at an index greater than the node listing it.
C37_ParentBeforeChild ==
    TreeBuilt =>
        \A i \in Indices(tree) :
            /\ i # tree.root =>
                  /\ is_some(node_at(tree, i).parent)
                  /\ unwrap(node_at(tree, i).parent) < i
            /\ \A n \in 1..Len(Sons(tree, i)) : Sons(tree, i)[n][2] > i

\* The first son of the root was deleted and its sibling, node 2, took the
\* index 1.
C37_Witness ==
    /\ TreeBuilt
    /\ op.kind = "delete_variation"
    /\ op.arg = 1
    /\ Len(before.nodes) = 3
    /\ node_at(before, 2).parent = Some(0)
    /\ Len(tree.nodes) = 2
    /\ node_at(tree, 1).parent = Some(0)
    /\ node_at(tree, 1).board = node_at(before, 2).board

----------------------------------------------------------------------------
(* C38 *)

\* The labels of a list of sons, in order: the step and the MoveData (ply,
\* SAN, colour) of each, without the index.
EdgeLabels(sons) == [n \in 1..Len(sons) |-> <<sons[n][1], sons[n][3]>>]

NotDeleted(son) == son[2] # op.arg

\* The sons of the old node i that survive the deletion, in their order.
KeptSons(i) == SelectSeq(Sons(before, i), NotDeleted)

\* The node j of the new arena stands for the old node i: same path, same
\* position, and its sons are the surviving sons of i, one for one in the
\* same order with the same labels and standing for the same nodes.
StandsFor(j, i) ==
    /\ SameNode(tree, j, before, i)
    /\ EdgeLabels(Sons(tree, j)) = EdgeLabels(KeptSons(i))
    /\ \A n \in 1..Len(Sons(tree, j)) :
          SameNode(tree, Sons(tree, j)[n][2], before, KeptSons(i)[n][2])

\* C38: the deletion of a node other than the root changes only indices:
\* every surviving node is in the new arena with its position, the labels of
\* its edges and its surviving sons in their former order; so a surviving
\* first son stays first and, when the deleted node was a first son, its
\* next sibling is first.
C38_DeleteKeepsOrder ==
    (DeletedNonRoot /\ WellFormed(before)) =>
        \A i \in Indices(before) \ Subtree(before, op.arg) :
            \E j \in Indices(tree) : StandsFor(j, i)

\* The first of three sons of the root was deleted with its subtree: the
\* second son is now the first and the third the second.
C38_Witness ==
    /\ DeletedNonRoot
    /\ WellFormed(before)
    /\ Len(Sons(before, before.root)) = 3
    /\ Sons(before, before.root)[1][2] = op.arg
    /\ Len(Sons(tree, tree.root)) = 2
    /\ EdgeLabels(Sons(tree, tree.root)) = EdgeLabels(Tail(Sons(before, before.root)))
    /\ Len(tree.nodes) < Len(before.nodes)

----------------------------------------------------------------------------
(* C39 *)

\* C39: whenever end_drag has applied a move, Game.board (not yet updated)
\* is the position of the node the focus was on, the tree has taken the
\* move and its focus position is the position announced; and whenever no
\* UpdateBoard event is pending, Game.board is the position of the focus.
C39_BoardFollowsFocus ==
    ~Crashed =>
        /\ op.kind = "try_move" =>
              /\ board = GameTree_board(before)
              /\ op.ret = "true"
              /\ GameTree_board(tree) = events[Len(events)]
        /\ events = <<>> => board = GameTree_board(tree)

====
